---- MODULE Spec2Model ----
(***************************************************************************)
(* A model of ndiff (src/nmap/ndiff/ndiff.py): the comparison of two Nmap  *)
(* scans.  The state is the two Scan objects, the global verbose flag and  *)
(* the position of ScanDiff.output in its run; the diff objects            *)
(* (ScriptResultDiff, PortDiff, HostDiff) are values built by operators    *)
(* that follow the constructors of the same name.  main (the command line, *)
(* the loads and the exit status) and the content handler of the XML       *)
(* parser are modelled around it, each with its own specification.         *)
(*                                                                         *)
(* Representation of Python values:                                        *)
(*  - None is the string None below; states, OS names, script output and   *)
(*    service fields are strings (the program only tests them for          *)
(*    equality or membership);                                             *)
(*  - strings that the program ORDERS (address strings, host names,        *)
(*    script ids) are natural numbers standing for their position in       *)
(*    lexicographic order;                                                 *)
(*  - a dict is a function (Host.ports) or, where the program iterates     *)
(*    over it, the sequence of its items in iteration order                *)
(*    (Host.extraports);                                                   *)
(*  - every Host object carries oid, its identity (what id(self) returns); *)
(*    0 is the oid of the placeholder hosts that host_pairs creates,       *)
(*    whose id is never read.                                              *)
(***************************************************************************)
EXTENDS Integers, Sequences, FiniteSets, TLC

VARIABLES
    verbose,                    \* the module-level flag (ndiff.py:25)
    scan_a, scan_b,             \* ScanDiff.scan_a, ScanDiff.scan_b
    pc,                         \* position of main, of ScanDiff.output or of the parser
    i, j,                       \* the indices of the host_pairs generator
    cost,                       \* the local variable cost of ScanDiff.output
    h_diffs,                    \* the HostDiffs built so far, in order
    pre_script_result_diffs,    \* local of ScanDiff.output
    post_script_result_diffs,   \* local of ScanDiff.output
    out,                        \* the parts handed to the renderer, in order
    f,                          \* ScanDiff.f, the stream of the report
    opts,                       \* main: the options getopt returned
    opt_index,                  \* main: the position of the loop over opts
    input_filenames,            \* main: the non-option arguments
    output_format,              \* main: the local variable output_format
    opened,                     \* the file names open() was called with
    exit_code,                  \* <<status>> once the process has exited
    handler,                    \* the NmapContentHandler of a Scan.load
    events                      \* the element events the parser has yet to send

\* The state of main and of the parser, which ScanDiff.output leaves alone.
outer_vars == <<f, opts, opt_index, input_filenames, output_format, opened,
                exit_code, handler, events>>

vars == <<verbose, scan_a, scan_b, pc, i, j, cost, h_diffs,
          pre_script_result_diffs, post_script_result_diffs, out, f,
          opts, opt_index, input_filenames, output_format, opened,
          exit_code, handler, events>>

----------------------------------------------------------------------------
(* Bounds of the model.                                                    *)

MaxHosts == 2       \* hosts per scan in the host-alignment specification
MaxOs == 2          \* OS matches per host
MaxScripts == 2     \* distinct script ids
MaxOpts == 2        \* options on the command line
MaxFiles == 3       \* file names on the command line

----------------------------------------------------------------------------
(* Generic helpers.                                                        *)

None == "None"

B(b) == IF b THEN 1 ELSE 0

Range(s) == {s[k] : k \in DOMAIN s}

RECURSIVE SeqSum(_)
SeqSum(s) == IF s = <<>> THEN 0 ELSE s[1] + SeqSum(Tail(s))

\* Python's comparison of two 2-tuples of numbers.
TupleLess(x, y) == x[1] < y[1] \/ (x[1] = y[1] /\ x[2] < y[2])

----------------------------------------------------------------------------
(* Address, Service, ScriptResult, Port, Host.                             *)

type_rank(type) == CASE type = "ipv4" -> 0 [] type = "ipv6" -> 1 [] type = "mac" -> 2

Address(type, s) == [type |-> type, s |-> s]

sort_key(addr) == <<type_rank(addr.type), addr.s>>

Service ==
    [name |-> None, product |-> None, version |-> None, extrainfo |-> None,
     tunnel |-> None]

Service_eq(x, y) ==
    /\ x.name = y.name
    /\ x.product = y.product
    /\ x.version = y.version
    /\ x.extrainfo = y.extrainfo

ScriptResult(id, output) == [id |-> id, output |-> output]

\* "sr_a is None" in a ScriptResultDiff: a record no script result equals
\* (script ids are >= 1).
NoScriptResult == [id |-> 0, output |-> None]

Port(spec, state) ==
    [spec |-> spec, state |-> state, service |-> Service, script_results |-> <<>>]

Host(oid) ==
    [oid |-> oid, state |-> None, addresses |-> <<>>, hostnames |-> <<>>,
     ports |-> <<>>, extraports |-> <<>>, os |-> <<>>, script_results |-> <<>>]

\* str values order after int values (Python 2 orders numbers before every
\* other type), and two values of the same type by their value.
IdInt(n) == [t |-> 0, v |-> n]
IdStr(s) == [t |-> 1, v |-> s]

id_lt(x, y) == TupleLess(<<x.t, x.v>>, <<y.t, y.v>>)

sorted_least_address(addresses) ==
    CHOOSE a \in Range(addresses) :
        \A b \in Range(addresses) : ~TupleLess(sort_key(b), sort_key(a))

sorted_least_hostname(hostnames) ==
    CHOOSE n \in Range(hostnames) : \A m \in Range(hostnames) : n <= m

\* Faulty variant of get_id: the least address is taken by its string
\* alone, whatever its type.
get_id_least_string(h) ==
    IF Len(h.addresses) > 0
        THEN IdStr(CHOOSE n \in {a.s : a \in Range(h.addresses)} :
                       \A a \in Range(h.addresses) : n <= a.s)
    ELSE IF Len(h.hostnames) > 0 THEN IdStr(sorted_least_hostname(h.hostnames))
    ELSE IdInt(h.oid)

get_id(h) ==
    IF Len(h.addresses) > 0 THEN IdStr(sorted_least_address(h.addresses).s)
    ELSE IF Len(h.hostnames) > 0 THEN IdStr(sorted_least_hostname(h.hostnames))
    ELSE IdInt(h.oid)

is_extraports(h, state) ==
    state = None \/ state \in {h.extraports[k][1] : k \in DOMAIN h.extraports}

\* Faulty variant of sort_hosts: the list is left in the order of the
\* report.
sort_hosts_unsorted(hosts) == hosts

\* Faulty variant of sort_hosts: a host whose id is already in the sorted
\* list is left out.
RECURSIVE sort_hosts_unique(_)
sort_hosts_unique(hosts) ==
    IF hosts = <<>> THEN <<>>
    ELSE LET n == Len(hosts)
             front == sort_hosts_unique(SubSeq(hosts, 1, n - 1))
             h == hosts[n]
             p == Cardinality({k \in DOMAIN front :
                                  ~id_lt(get_id(h), get_id(front[k]))})
         IN IF \E k \in DOMAIN front : get_id(front[k]) = get_id(h)
               THEN front
               ELSE SubSeq(front, 1, p) \o <<h>> \o SubSeq(front, p + 1, Len(front))

\* list.sort(key=...) is stable: hosts with equal ids keep their order.
RECURSIVE sort_hosts(_)
sort_hosts(hosts) ==
    IF hosts = <<>> THEN <<>>
    ELSE LET n == Len(hosts)
             front == sort_hosts(SubSeq(hosts, 1, n - 1))
             h == hosts[n]
             p == Cardinality({k \in DOMAIN front :
                                  ~id_lt(get_id(h), get_id(front[k]))})
         IN SubSeq(front, 1, p) \o <<h>> \o SubSeq(front, p + 1, n - 1)

----------------------------------------------------------------------------
(* ScriptResultDiff and PortDiff.                                          *)

ScriptResultDiff(sr_a, sr_b) == [sr_a |-> sr_a, sr_b |-> sr_b]

\* The merge of ScriptResultDiff.diff_lists from positions ia of a and jb
\* of b on (1-based).
RECURSIVE diff_lists_from(_, _, _, _)
diff_lists_from(a, b, ia, jb) ==
    IF ia <= Len(a) /\ jb <= Len(b) THEN
        IF a[ia].id < b[jb].id THEN
            <<ScriptResultDiff(a[ia], NoScriptResult)>>
                \o diff_lists_from(a, b, ia + 1, jb)
        ELSE IF a[ia].id > b[jb].id THEN
            <<ScriptResultDiff(NoScriptResult, b[jb])>>
                \o diff_lists_from(a, b, ia, jb + 1)
        ELSE
            (IF a[ia].output # b[jb].output \/ verbose
                THEN <<ScriptResultDiff(a[ia], b[jb])>> ELSE <<>>)
                \o diff_lists_from(a, b, ia + 1, jb + 1)
    ELSE IF ia <= Len(a) THEN
        <<ScriptResultDiff(a[ia], NoScriptResult)>>
            \o diff_lists_from(a, b, ia + 1, jb)
    ELSE IF jb <= Len(b) THEN
        <<ScriptResultDiff(NoScriptResult, b[jb])>>
            \o diff_lists_from(a, b, ia, jb + 1)
    ELSE <<>>

diff_lists(a, b) == diff_lists_from(a, b, 1, 1)

\* Faulty variant of PortDiff: a difference of the states adds nothing to
\* the cost.
PortDiff_state_free(port_a, port_b) ==
    LET script_result_diffs ==
            diff_lists(port_a.script_results, port_b.script_results)
    IN [port_a |-> port_a,
        port_b |-> port_b,
        script_result_diffs |-> script_result_diffs,
        cost |-> B(port_a.spec # port_b.spec)
                 + B(~Service_eq(port_a.service, port_b.service))
                 + Len(script_result_diffs)]

PortDiff(port_a, port_b) ==
    LET script_result_diffs ==
            diff_lists(port_a.script_results, port_b.script_results)
    IN [port_a |-> port_a,
        port_b |-> port_b,
        script_result_diffs |-> script_result_diffs,
        cost |-> B(port_a.spec # port_b.spec)
                 + B(port_a.state # port_b.state)
                 + B(~Service_eq(port_a.service, port_b.service))
                 + Len(script_result_diffs)]

----------------------------------------------------------------------------
(* difflib.SequenceMatcher(None, a, b).get_opcodes(), as HostDiff.diff     *)
(* calls it: the longest matching block, then the same to its left and to  *)
(* its right.  Positions are 0-based as in Python; the heuristic that      *)
(* drops popular elements only applies to lists of 200 elements or more.   *)

\* a[ia:ia+k] == b[jb:jb+k]
BlockMatches(a, b, ia, jb, k) == \A d \in 0..(k - 1) : a[ia + d + 1] = b[jb + d + 1]

\* The longest block of a[alo:ahi] and b[blo:bhi]; of those the one that
\* starts earliest in a, and of those the one that starts earliest in b.
find_longest_match(a, b, alo, ahi, blo, bhi) ==
    LET cands == {c \in (alo..(ahi - 1)) \X (blo..(bhi - 1)) \X (1..(ahi - alo)) :
                     /\ c[1] + c[3] <= ahi
                     /\ c[2] + c[3] <= bhi
                     /\ BlockMatches(a, b, c[1], c[2], c[3])}
        better(c, d) == \/ c[3] > d[3]
                        \/ c[3] = d[3] /\ TupleLess(<<c[1], c[2]>>, <<d[1], d[2]>>)
    IN IF cands = {} THEN <<alo, blo, 0>>
       ELSE CHOOSE c \in cands : \A d \in cands : d = c \/ better(c, d)

RECURSIVE matching_blocks(_, _, _, _, _, _)
matching_blocks(a, b, alo, ahi, blo, bhi) ==
    LET m == find_longest_match(a, b, alo, ahi, blo, bhi)
    IN IF m[3] = 0 THEN <<>>
       ELSE (IF alo < m[1] /\ blo < m[2]
                THEN matching_blocks(a, b, alo, m[1], blo, m[2]) ELSE <<>>)
            \o <<m>>
            \o (IF m[1] + m[3] < ahi /\ m[2] + m[3] < bhi
                THEN matching_blocks(a, b, m[1] + m[3], ahi, m[2] + m[3], bhi)
                ELSE <<>>)

get_matching_blocks(a, b) ==
    matching_blocks(a, b, 0, Len(a), 0, Len(b)) \o <<<<Len(a), Len(b), 0>>>>

\* The opcodes from block number k on, with ia and jb the ends of the
\* previous block.
RECURSIVE opcodes_from(_, _, _, _)
opcodes_from(blocks, k, ia, jb) ==
    IF k > Len(blocks) THEN <<>>
    ELSE LET ai == blocks[k][1]
             bj == blocks[k][2]
             size == blocks[k][3]
             tag == IF ia < ai /\ jb < bj THEN "replace"
                    ELSE IF ia < ai THEN "delete"
                    ELSE IF jb < bj THEN "insert"
                    ELSE ""
         IN (IF tag # "" THEN <<<<tag, ia, ai, jb, bj>>>> ELSE <<>>)
            \o (IF size > 0
                   THEN <<<<"equal", ai, ai + size, bj, bj + size>>>> ELSE <<>>)
            \o opcodes_from(blocks, k + 1, ai + size, bj + size)

get_opcodes(a, b) == opcodes_from(get_matching_blocks(a, b), 1, 0, 0)

----------------------------------------------------------------------------
(* HostDiff.                                                               *)

\* The protocols of the model, by their order as strings.
proto_rank(protocol) == CASE protocol = "tcp" -> 0 [] protocol = "udp" -> 1

\* Python's comparison of two port specs (number, protocol).
spec_lt(s, t) == TupleLess(<<s[1], proto_rank(s[2])>>, <<t[1], proto_rank(t[2])>>)

RECURSIVE sorted_specs(_)
sorted_specs(S) ==
    IF S = {} THEN <<>>
    ELSE LET least == CHOOSE s \in S : \A t \in S : ~spec_lt(t, s)
         IN <<least>> \o sorted_specs(S \ {least})

\* Faulty variant of all_specs: the specs of host_a come first, those that
\* only host_b has after them.
all_specs_a_first(host_a, host_b) ==
    sorted_specs(DOMAIN host_a.ports)
    \o sorted_specs(DOMAIN host_b.ports \ DOMAIN host_a.ports)

\* all_specs of HostDiff.diff: the specs of both hosts' ports, sorted.
all_specs(host_a, host_b) ==
    sorted_specs(DOMAIN host_a.ports \cup DOMAIN host_b.ports)

\* "host.ports.get(spec) or Port(spec)"
port_or_new(host, spec) ==
    IF spec \in DOMAIN host.ports THEN host.ports[spec] ELSE Port(spec, None)

\* "port_a or port_b" where the ports are host_x.ports.get(spec)
port_a_or_port_b(host_a, host_b, spec) ==
    IF spec \in DOMAIN host_a.ports THEN host_a.ports[spec] ELSE host_b.ports[spec]

\* Faulty variant of include_diff: a diff is dropped as soon as one side
\* classifies its port as extraports.
include_diff_either(host_a, host_b, diff) ==
    IF is_extraports(host_a, diff.port_a.state)
          \/ is_extraports(host_b, diff.port_b.state)
        THEN FALSE
    ELSE IF verbose THEN TRUE
    ELSE diff.cost > 0

include_diff(host_a, host_b, diff) ==
    IF is_extraports(host_a, diff.port_a.state)
          /\ is_extraports(host_b, diff.port_b.state)
        THEN FALSE
    ELSE IF verbose THEN TRUE
    ELSE diff.cost > 0

\* The specs whose PortDiff the loop of HostDiff.diff includes, in order.
included_specs(host_a, host_b) ==
    SelectSeq(all_specs(host_a, host_b),
              LAMBDA spec : include_diff(host_a, host_b,
                                PortDiff(port_or_new(host_a, spec),
                                         port_or_new(host_b, spec))))

\* Faulty variant of port_diffs_cost: the cost of a PortDiff is added
\* whether or not the diff is included.
port_diffs_cost_all(host_a, host_b) ==
    LET specs == all_specs(host_a, host_b)
    IN SeqSum([k \in DOMAIN specs |->
                  PortDiff(port_or_new(host_a, specs[k]),
                           port_or_new(host_b, specs[k])).cost])

\* What the loop over all_specs adds to HostDiff.cost.
port_diffs_cost(host_a, host_b) ==
    LET specs == included_specs(host_a, host_b)
    IN SeqSum([k \in DOMAIN specs |->
                  PortDiff(port_or_new(host_a, specs[k]),
                           port_or_new(host_b, specs[k])).cost])

\* Faulty variant of os_cost: every element of a run that is not "equal"
\* counts.
os_cost_elements(os_diffs) ==
    SeqSum([k \in DOMAIN os_diffs |->
               IF os_diffs[k][1] = "equal" THEN 0
               ELSE (os_diffs[k][3] - os_diffs[k][2])
                    + (os_diffs[k][5] - os_diffs[k][4])])

\* Faulty variant of os_cost: the "equal" runs are counted too.
os_cost_all(os_diffs) == Len(os_diffs)

\* os_cost of HostDiff.diff
os_cost(os_diffs) == Len(SelectSeq(os_diffs, LAMBDA x : x[1] # "equal"))

\* tuple((count, state) for (state, count) in host.extraports.items())
extraports_tuple(host) ==
    [k \in DOMAIN host.extraports |->
        <<host.extraports[k][2], host.extraports[k][1]>>]

extraports_differ(host_a, host_b) ==
    extraports_tuple(host_a) # extraports_tuple(host_b)

\* "self.host_a.state != self.host_b.state"
state_differs(host_a, host_b) == host_a.state # host_b.state

\* Faulty variant of id_differs: the host names are not compared.
id_differs_addresses(host_a, host_b) ==
    Range(host_a.addresses) # Range(host_b.addresses)

\* The comparison of the address sets and of the host name sets.
id_differs(host_a, host_b) ==
    \/ Range(host_a.addresses) # Range(host_b.addresses)
    \/ Range(host_a.hostnames) # Range(host_b.hostnames)

\* HostDiff(host_a, host_b): the object after __init__ has run diff().
\* port_diffs, a dict keyed by Port objects with distinct specs, is a
\* function of the spec.
HostDiff(host_a, host_b) ==
    LET specs == included_specs(host_a, host_b)
        os_diffs == get_opcodes(host_a.os, host_b.os)
        script_result_diffs ==
            diff_lists(host_a.script_results, host_b.script_results)
    IN [host_a |-> host_a,
        host_b |-> host_b,
        state_changed |-> state_differs(host_a, host_b),
        id_changed |-> id_differs(host_a, host_b),
        os_changed |-> os_cost(os_diffs) > 0,
        extraports_changed |-> extraports_differ(host_a, host_b),
        ports |-> [k \in DOMAIN specs |->
                      port_a_or_port_b(host_a, host_b, specs[k])],
        port_diffs |-> [spec \in Range(specs) |->
                           PortDiff(port_or_new(host_a, spec),
                                    port_or_new(host_b, spec))],
        os_diffs |-> os_diffs,
        script_result_diffs |-> script_result_diffs,
        cost |-> B(state_differs(host_a, host_b))
                 + B(id_differs(host_a, host_b))
                 + port_diffs_cost(host_a, host_b)
                 + os_cost(os_diffs)
                 + B(extraports_differ(host_a, host_b))
                 + Len(script_result_diffs)]

----------------------------------------------------------------------------
(* The text form of script results.  A line of text is a record; a printed *)
(* line is a record of its first character (sign) and the rest (body).     *)

\* The outputs of the model's script results that are not a single line:
\* the empty string and a text of two lines.
NoOutput == ""
TwoLines == "x\ny"

\* str.splitlines() on the outputs of the model.
splitlines(output) ==
    CASE output = NoOutput -> <<>>
      [] output = TwoLines -> <<"x", "y">>
      [] OTHER -> <<output>>

\* ScriptResult.get_lines: the first line starts with the id, the last
\* line is marked "|_ " and the others "|  ".
get_lines(sr) ==
    LET lines == splitlines(sr.output)
    IN [k \in DOMAIN lines |->
           [mark |-> IF k < Len(lines) THEN "|  " ELSE "|_ ",
            id |-> IF k = 1 THEN sr.id ELSE 0,
            text |-> lines[k]]]

RECURSIVE Flatten(_)
Flatten(ss) == IF ss = <<>> THEN <<>> ELSE ss[1] \o Flatten(Tail(ss))

\* The rows one opcode of the alignment of a_lines with b_lines adds to
\* the table.
opcode_rows(op, a_lines, b_lines) ==
    LET minus == [k \in 1..(op[3] - op[2]) |->
                     [sign |-> "-", body |-> a_lines[op[2] + k]]]
        plus == [k \in 1..(op[5] - op[4]) |->
                    [sign |-> "+", body |-> b_lines[op[4] + k]]]
        same == [k \in 1..(op[3] - op[2]) |->
                    [sign |-> " ", body |-> a_lines[op[2] + k]]]
    IN (IF op[1] \in {"replace", "delete"} THEN minus ELSE <<>>)
       \o (IF op[1] \in {"replace", "insert"} THEN plus ELSE <<>>)
       \o (IF op[1] = "equal" THEN same ELSE <<>>)

\* ScriptResultDiff.append_to_port_table: the rows it appends.
append_to_port_table(sr_diff) ==
    LET a_lines == IF sr_diff.sr_a # NoScriptResult
                      THEN get_lines(sr_diff.sr_a) ELSE <<>>
        b_lines == IF sr_diff.sr_b # NoScriptResult
                      THEN get_lines(sr_diff.sr_b) ELSE <<>>
        ops == get_opcodes(a_lines, b_lines)
    IN IF a_lines # b_lines \/ verbose
          THEN Flatten([k \in DOMAIN ops |->
                           opcode_rows(ops[k], a_lines, b_lines)])
          ELSE <<>>

\* print_script_result_diffs_text: the lines it prints, an empty line
\* first.
print_script_result_diffs_text(title, results_a, results_b, diffs) ==
    LET table == Flatten([k \in DOMAIN diffs |->
                             append_to_port_table(diffs[k])])
        sign == IF Len(results_b) = 0 THEN "-"
                ELSE IF Len(results_a) = 0 THEN "+"
                ELSE " "
    IN IF Len(table) > 0
          THEN <<[sign |-> "", body |-> ""], [sign |-> sign, body |-> title]>>
               \o table
          ELSE <<>>

\* format_banner: the parts of the banner that depend on the scan.
format_banner(scan) ==
    [scanner |-> IF scan.scanner # None /\ scan.scanner # "nmap"
                    THEN scan.scanner ELSE "Nmap",
     version |-> scan.version,
     start_date |-> scan.start_date,
     args |-> scan.args]

\* ScanDiffText.output_beginning: the lines it prints.
output_beginning(a, b) ==
    IF format_banner(a) # format_banner(b)
        THEN <<[sign |-> "-", body |-> format_banner(a)],
               [sign |-> "+", body |-> format_banner(b)]>>
    ELSE IF verbose THEN <<[sign |-> " ", body |-> format_banner(a)]>>
    ELSE <<>>

\* Host.format_name: the sorted host names and the sorted address strings
\* that it joins ("<no name>" when there is neither).
format_name(host) ==
    LET addresses == SortSeq(host.addresses,
                             LAMBDA x, y : TupleLess(sort_key(x), sort_key(y)))
    IN [kind |-> "name",
        hostnames |-> SortSeq(host.hostnames, <),
        addresses |-> [k \in DOMAIN addresses |-> addresses[k].s]]

\* Host.extraports_string: the (count, state) pairs, the greatest first.
extraports_string(host) ==
    LET rank(state) == CASE state = None -> 0
                         [] state = "closed" -> 1
                         [] state = "filtered" -> 2
                         [] state = "open" -> 3
                         [] state = "unfiltered" -> 4
                         [] OTHER -> 5
        list == [k \in DOMAIN host.extraports |->
                    <<host.extraports[k][2], host.extraports[k][1]>>]
    IN [kind |-> "extraports",
        list |-> SortSeq(list, LAMBDA x, y :
                     TupleLess(<<y[1], rank(y[2])>>, <<x[1], rank(x[2])>>))]

\* The columns PORT, STATE, SERVICE and VERSION of a port: spec_string,
\* state_string, name_string and version_string.  The two strings of the
\* service are the sequences of the parts that are joined, the empty
\* sequence for None.
port_columns(port) ==
    LET service == port.service
        part(field) == IF field # None THEN <<field>> ELSE <<>>
    IN <<port.spec,
         IF port.state = None THEN "unknown" ELSE port.state,
         part(service.tunnel) \o part(service.name),
         part(service.product) \o part(service.version)
             \o (IF service.extrainfo # None
                    THEN <<"(", service.extrainfo, ")">> ELSE <<>>)>>

\* Table.append: the row as the table keeps it, the columns at the end
\* that are None dropped.
RECURSIVE table_row(_, _)
table_row(sign, columns) ==
    IF Len(columns) > 2 /\ columns[Len(columns)] = <<>>
        THEN table_row(sign, SubSeq(columns, 1, Len(columns) - 1))
    ELSE [sign |-> sign, body |-> [kind |-> "port", columns |-> columns]]

\* Faulty variant of port_rows: the row of port_b is left out as soon as
\* host_a classifies the state of port_a as extraports.
port_rows_symmetric(port_diff, host_a, host_b) ==
    LET a_columns == port_columns(port_diff.port_a)
        b_columns == port_columns(port_diff.port_b)
    IN IF a_columns = b_columns
          THEN <<table_row(" ", a_columns)>>
          ELSE IF ~is_extraports(host_a, port_diff.port_a.state)
                  THEN <<table_row("-", a_columns)>>
                       \o (IF ~is_extraports(host_b, port_diff.port_b.state)
                              THEN <<table_row("+", b_columns)>> ELSE <<>>)
                  ELSE <<>>

\* PortDiff.append_to_port_table, the rows of the port itself.  In
\* "verbose or self.script_result_diffs > 0" a list is compared with an
\* int, and CPython 2 orders a list after every int: the test is true.
port_rows(port_diff, host_a, host_b) ==
    LET a_columns == port_columns(port_diff.port_a)
        b_columns == port_columns(port_diff.port_b)
    IN IF a_columns = b_columns
          THEN (IF verbose \/ TRUE THEN <<table_row(" ", a_columns)>> ELSE <<>>)
          ELSE (IF ~is_extraports(host_a, port_diff.port_a.state)
                   THEN <<table_row("-", a_columns)>> ELSE <<>>)
               \o (IF ~is_extraports(host_b, port_diff.port_b.state)
                      THEN <<table_row("+", b_columns)>> ELSE <<>>)

\* PortDiff.append_to_port_table: the rows it appends, those of the
\* script results of the port after those of the port.
PortDiff_append_to_port_table(port_diff, host_a, host_b) ==
    port_rows(port_diff, host_a, host_b)
    \o Flatten([k \in DOMAIN port_diff.script_result_diffs |->
                   append_to_port_table(port_diff.script_result_diffs[k])])

\* HostDiff.print_text: the lines it prints to its argument f.
print_text(h_diff) ==
    LET host_a == h_diff.host_a
        host_b == h_diff.host_b
        line(sign, body) == [sign |-> sign, body |-> body]
        when(condition, lines) == IF condition THEN lines ELSE <<>>
        Host_is(host) == [kind |-> "state", state |-> host.state]
        names ==
            IF h_diff.id_changed
                THEN when(host_a.state # None, <<line("-", format_name(host_a))>>)
                     \o when(host_b.state # None,
                             <<line("+", format_name(host_b))>>)
                ELSE <<line(" ", format_name(host_a))>>
        state ==
            IF h_diff.state_changed
                THEN when(host_a.state # None, <<line("-", Host_is(host_a))>>)
                     \o when(host_b.state # None, <<line("+", Host_is(host_b))>>)
                ELSE when(verbose, <<line(" ", Host_is(host_b))>>)
        extraports ==
            IF h_diff.extraports_changed
                THEN when(Len(host_a.extraports) > 0,
                          <<line("-", extraports_string(host_a))>>)
                     \o when(Len(host_b.extraports) > 0,
                             <<line("+", extraports_string(host_b))>>)
                ELSE when(verbose /\ Len(host_a.extraports) > 0,
                          <<line(" ", extraports_string(host_a))>>)
        mark == IF host_a.state = None THEN "+"
                ELSE IF host_b.state = None THEN "-"
                ELSE " "
        port_table ==
            <<line(mark, [kind |-> "header"])>>
            \o Flatten([k \in DOMAIN h_diff.ports |->
                           PortDiff_append_to_port_table(
                               h_diff.port_diffs[h_diff.ports[k].spec],
                               host_a, host_b)])
        os_title ==
            IF Len(host_a.os) > 0
                THEN IF Len(host_b.os) > 0
                        THEN <<line(" ", [kind |-> "os_title"])>>
                        ELSE <<line("-", [kind |-> "os_title"])>>
                ELSE when(Len(host_b.os) > 0,
                          <<line("+", [kind |-> "os_title"])>>)
        os_rows == Flatten([k \in DOMAIN h_diff.os_diffs |->
                               opcode_rows(h_diff.os_diffs[k],
                                           host_a.os, host_b.os)])
        os == when(h_diff.os_changed \/ verbose,
                   os_title
                   \o [k \in DOMAIN os_rows |->
                          line(os_rows[k].sign,
                               [kind |-> "os", name |-> os_rows[k].body])])
    IN names \o state \o extraports
       \o when(Len(port_table) > 1, port_table) \o os

\* The stream that print_script_result_diffs_text writes to when it is
\* called without f.
DefaultStream == "sys.stdout"

----------------------------------------------------------------------------
(* The XML form.  A node is a record of its tag, its attributes and the    *)
(* sequence of its children; a to_dom_fragment method is the sequence of   *)
(* the children of the fragment it returns.                                *)

Node(tag, attrs, children) == [tag |-> tag, attrs |-> attrs, children |-> children]

\* Port.to_dom_fragment, with Service.to_dom_fragment (no element for a
\* service without attributes) and ScriptResult.to_dom_fragment.
Port_to_dom_fragment(port) ==
    LET state == IF port.state # None
                    THEN <<Node("state", [state |-> port.state], <<>>)>>
                    ELSE <<>>
        service == IF port.service # Service
                      THEN <<Node("service", port.service, <<>>)>> ELSE <<>>
        scripts == [k \in DOMAIN port.script_results |->
                       Node("script", port.script_results[k], <<>>)]
    IN <<Node("port", [portid |-> port.spec[1], protocol |-> port.spec[2]],
              state \o service \o scripts)>>

\* Host.to_dom_fragment
Host_to_dom_fragment(host) ==
    LET when(condition, nodes) == IF condition THEN nodes ELSE <<>>
        status == when(host.state # None,
                       <<Node("status", [state |-> host.state], <<>>)>>)
        addresses == [k \in DOMAIN host.addresses |->
                         Node("address", host.addresses[k], <<>>)]
        hostnames ==
            when(Len(host.hostnames) > 0,
                 <<Node("hostnames", <<>>,
                        [k \in DOMAIN host.hostnames |->
                            Node("hostname", [name |-> host.hostnames[k]],
                                 <<>>)])>>)
        extraports == [k \in DOMAIN host.extraports |->
                          Node("extraports",
                               [state |-> host.extraports[k][1],
                                count |-> host.extraports[k][2]], <<>>)]
        specs == SelectSeq(sorted_specs(DOMAIN host.ports),
                           LAMBDA spec :
                               ~is_extraports(host, host.ports[spec].state))
        ports == extraports
                 \o Flatten([k \in DOMAIN specs |->
                                Port_to_dom_fragment(host.ports[specs[k]])])
        os == when(Len(host.os) > 0,
                   <<Node("os", <<>>,
                          [k \in DOMAIN host.os |->
                              Node("osmatch", [name |-> host.os[k]], <<>>)])>>)
        hostscript ==
            when(Len(host.script_results) > 0,
                 <<Node("hostscript", <<>>,
                        [k \in DOMAIN host.script_results |->
                            Node("script", host.script_results[k], <<>>)])>>)
    IN <<Node("host", <<>>,
              status \o addresses \o hostnames
              \o when(ports # <<>>, <<Node("ports", <<>>, ports)>>)
              \o os \o hostscript)>>

\* ScriptResultDiff.to_dom_fragment
ScriptResultDiff_to_dom_fragment(sr_diff) ==
    IF /\ sr_diff.sr_a # NoScriptResult
       /\ sr_diff.sr_b # NoScriptResult
       /\ sr_diff.sr_a = sr_diff.sr_b
        THEN <<Node("script", sr_diff.sr_a, <<>>)>>
    ELSE (IF sr_diff.sr_a # NoScriptResult
             THEN <<Node("a", <<>>, <<Node("script", sr_diff.sr_a, <<>>)>>)>>
             ELSE <<>>)
         \o (IF sr_diff.sr_b # NoScriptResult
                THEN <<Node("b", <<>>, <<Node("script", sr_diff.sr_b, <<>>)>>)>>
                ELSE <<>>)

\* script_result_diffs_to_dom_fragment for the element named tag: the node
\* it returns, an empty fragment, an a or b element around the element, or
\* the element itself.
script_result_diffs_to_dom_fragment(tag, results_a, results_b, diffs) ==
    LET scripts(results) == [k \in DOMAIN results |->
                                Node("script", results[k], <<>>)]
    IN IF Len(results_a) = 0 /\ Len(results_b) = 0
          THEN Node("#document-fragment", <<>>, <<>>)
       ELSE IF Len(results_b) = 0
          THEN Node("a", <<>>, <<Node(tag, <<>>, scripts(results_a))>>)
       ELSE IF Len(results_a) = 0
          THEN Node("b", <<>>, <<Node(tag, <<>>, scripts(results_b))>>)
       ELSE Node(tag, <<>>,
                 Flatten([k \in DOMAIN diffs |->
                             ScriptResultDiff_to_dom_fragment(diffs[k])]))

\* PortDiff.to_dom_fragment
PortDiff_to_dom_fragment(port_diff) ==
    LET port_a == port_diff.port_a
        port_b == port_diff.port_b
        service(port) == IF port.service # Service
                            THEN <<Node("service", port.service, <<>>)>>
                            ELSE <<>>
        state == IF port_a.state # None
                    THEN <<Node("state", [state |-> port_a.state], <<>>)>>
                    ELSE <<>>
        services == IF Service_eq(port_a.service, port_b.service)
                       THEN service(port_a)
                       ELSE <<Node("a", <<>>, service(port_a)),
                              Node("b", <<>>, service(port_b))>>
        scripts == Flatten([k \in DOMAIN port_diff.script_result_diffs |->
                               ScriptResultDiff_to_dom_fragment(
                                   port_diff.script_result_diffs[k])])
    IN <<Node("portdiff", <<>>,
              IF port_a.spec = port_b.spec /\ port_a.state = port_b.state
                 THEN <<Node("port", [portid |-> port_a.spec[1],
                                      protocol |-> port_a.spec[2]],
                             state \o services \o scripts)>>
                 ELSE <<Node("a", <<>>, Port_to_dom_fragment(port_a)),
                        Node("b", <<>>, Port_to_dom_fragment(port_b))>>)>>

\* HostDiff.to_dom_fragment when host_a.state or host_b.state is None:
\* "The host is missing in one scan. Output the whole thing."
missing_host_to_dom(host_a, host_b) ==
    IF host_a.state # None
        THEN <<Node("a", <<>>, Host_to_dom_fragment(host_a))>>
    ELSE IF host_b.state # None
        THEN <<Node("b", <<>>, Host_to_dom_fragment(host_b))>>
    ELSE <<>>

\* HostDiff.to_dom_fragment
HostDiff_to_dom_fragment(h_diff) ==
    LET host_a == h_diff.host_a
        host_b == h_diff.host_b
        when(condition, nodes) == IF condition THEN nodes ELSE <<>>
        wrapped(tag, nodes) == when(nodes # <<>>, <<Node(tag, <<>>, nodes)>>)
        status(host) == when(host.state # None,
                             <<Node("status", [state |-> host.state], <<>>)>>)
        state == IF host_a.state = host_b.state
                    THEN when(verbose, status(host_a))
                    ELSE <<Node("a", <<>>, status(host_a)),
                           Node("b", <<>>, status(host_b))>>
        address_lt(x, y) == TupleLess(sort_key(x), sort_key(y))
        sorted_addresses(S) ==
            SortSeq(SelectSeq(host_a.addresses \o host_b.addresses,
                              LAMBDA x : x \in S),
                    address_lt)
        unique(l) == SelectSeq([k \in DOMAIN l |->
                                   [x |-> l[k],
                                    first |-> \A m \in 1..(k - 1) : l[m] # l[k]]],
                               LAMBDA e : e.first)
        address_nodes(S) ==
            LET l == unique(sorted_addresses(S))
            IN [k \in DOMAIN l |-> Node("address", l[k].x, <<>>)]
        addrset_a == Range(host_a.addresses)
        addrset_b == Range(host_b.addresses)
        addresses == address_nodes(addrset_a \cap addrset_b)
                     \o wrapped("a", address_nodes(addrset_a \ addrset_b))
                     \o wrapped("b", address_nodes(addrset_b \ addrset_a))
        hostname_nodes(S) ==
            LET l == unique(SortSeq(SelectSeq(host_a.hostnames
                                                  \o host_b.hostnames,
                                              LAMBDA x : x \in S),
                            LAMBDA x, y : x < y))
            IN [k \in DOMAIN l |-> Node("hostname", [name |-> l[k].x], <<>>)]
        hostnameset_a == Range(host_a.hostnames)
        hostnameset_b == Range(host_b.hostnames)
        hostnames ==
            wrapped("hostnames",
                    hostname_nodes(hostnameset_a \cap hostnameset_b)
                    \o wrapped("a", hostname_nodes(hostnameset_a
                                                      \ hostnameset_b))
                    \o wrapped("b", hostname_nodes(hostnameset_b
                                                      \ hostnameset_a)))
        extraports(host) ==
            [k \in DOMAIN host.extraports |->
                Node("extraports", [state |-> host.extraports[k][1],
                                    count |-> host.extraports[k][2]], <<>>)]
        extraports_part ==
            IF Range(host_a.extraports) = Range(host_b.extraports)
                THEN extraports(host_a)
                ELSE <<Node("a", <<>>, extraports(host_a)),
                       Node("b", <<>>, extraports(host_b))>>
        port_nodes(port) ==
            LET p_diff == h_diff.port_diffs[port.spec]
            IN IF p_diff.cost = 0
                  THEN when(verbose, Port_to_dom_fragment(port))
                  ELSE PortDiff_to_dom_fragment(p_diff)
        ports == wrapped("ports",
                         extraports_part
                         \o Flatten([k \in DOMAIN h_diff.ports |->
                                        port_nodes(h_diff.ports[k])]))
        osmatch(name) == Node("osmatch", [name |-> name], <<>>)
        os_nodes(op) ==
            LET names_a == [k \in 1..(op[3] - op[2]) |->
                               osmatch(host_a.os[op[2] + k])]
                names_b == [k \in 1..(op[5] - op[4]) |->
                               osmatch(host_b.os[op[4] + k])]
            IN when(op[1] \in {"replace", "delete"},
                    <<Node("a", <<>>, names_a)>>)
               \o when(op[1] \in {"replace", "insert"},
                       <<Node("b", <<>>, names_b)>>)
               \o when(op[1] = "equal", names_a)
        os == when(h_diff.os_changed \/ verbose,
                   wrapped("os", Flatten([k \in DOMAIN h_diff.os_diffs |->
                                             os_nodes(h_diff.os_diffs[k])])))
        hostscript_node ==
            script_result_diffs_to_dom_fragment(
                "hostscript", host_a.script_results, host_b.script_results,
                h_diff.script_result_diffs)
        hostscript ==
            when(Len(h_diff.script_result_diffs) > 0 \/ verbose,
                 IF hostscript_node.tag = "#document-fragment"
                    THEN hostscript_node.children
                    ELSE <<hostscript_node>>)
    IN <<Node("hostdiff", <<>>,
              IF host_a.state = None \/ host_b.state = None
                 THEN missing_host_to_dom(host_a, host_b)
                 ELSE <<Node("host", <<>>,
                             state \o addresses \o hostnames \o ports
                             \o os \o hostscript)>>)>>

\* Scan.nmaprun_to_dom_fragment
nmaprun_to_dom_fragment(scan) ==
    <<Node("nmaprun",
           [scanner |-> scan.scanner, args |-> scan.args,
            start |-> scan.start_date, version |-> scan.version], <<>>)>>

\* ScanDiffXML.output_beginning after the start of the nmapdiff and
\* scandiff elements: the nodes it writes.
output_beginning_xml(a, b) ==
    LET nmaprun_differs ==
            \/ a.scanner # b.scanner
            \/ a.version # b.version
            \/ a.args # b.args
            \/ a.start_date # b.start_date
            \/ a.end_date # b.end_date
    IN IF nmaprun_differs
          THEN <<Node("a", <<>>, nmaprun_to_dom_fragment(a)),
                 Node("b", <<>>, nmaprun_to_dom_fragment(b))>>
       ELSE IF verbose THEN nmaprun_to_dom_fragment(a)
       ELSE <<>>

\* ScanDiffXML.output_pre_scripts and output_post_scripts for the element
\* named tag: XMLWriter.frag writes the children of the node that
\* script_result_diffs_to_dom_fragment returns.
output_scripts_xml(tag, results_a, results_b, diffs) ==
    IF Len(diffs) > 0 \/ verbose
        THEN script_result_diffs_to_dom_fragment(tag, results_a, results_b,
                                                 diffs).children
    ELSE <<>>

----------------------------------------------------------------------------
(* host_pairs and ScanDiff.output.                                         *)

\* Faulty variant of host_pairs_step: when the left head has the smaller id
\* the right index advances too, so a host of b is passed over.
host_pairs_step_skip(a, b, ia, jb) ==
    IF ia <= Len(a) /\ jb <= Len(b) THEN
        IF id_lt(get_id(a[ia]), get_id(b[jb])) THEN
            [host_a |-> a[ia], host_b |-> Host(0), i |-> ia + 1, j |-> jb + 1]
        ELSE IF id_lt(get_id(b[jb]), get_id(a[ia])) THEN
            [host_a |-> Host(0), host_b |-> b[jb], i |-> ia, j |-> jb + 1]
        ELSE
            [host_a |-> a[ia], host_b |-> b[jb], i |-> ia + 1, j |-> jb + 1]
    ELSE IF ia <= Len(a) THEN
        [host_a |-> a[ia], host_b |-> Host(0), i |-> ia + 1, j |-> jb]
    ELSE
        [host_a |-> Host(0), host_b |-> b[jb], i |-> ia, j |-> jb + 1]

\* Faulty variant of host_pairs_step: the two comparisons are exchanged, so
\* the head with the larger id is yielded first.
host_pairs_step_swapped(a, b, ia, jb) ==
    IF ia <= Len(a) /\ jb <= Len(b) THEN
        IF id_lt(get_id(b[jb]), get_id(a[ia])) THEN
            [host_a |-> a[ia], host_b |-> Host(0), i |-> ia + 1, j |-> jb]
        ELSE IF id_lt(get_id(a[ia]), get_id(b[jb])) THEN
            [host_a |-> Host(0), host_b |-> b[jb], i |-> ia, j |-> jb + 1]
        ELSE
            [host_a |-> a[ia], host_b |-> b[jb], i |-> ia + 1, j |-> jb + 1]
    ELSE IF ia <= Len(a) THEN
        [host_a |-> a[ia], host_b |-> Host(0), i |-> ia + 1, j |-> jb]
    ELSE
        [host_a |-> Host(0), host_b |-> b[jb], i |-> ia, j |-> jb + 1]

\* One step of the generator host_pairs(a, b) from the positions ia and jb
\* (1-based): the pair it yields and the positions it moves to.
host_pairs_step(a, b, ia, jb) ==
    IF ia <= Len(a) /\ jb <= Len(b) THEN
        IF id_lt(get_id(a[ia]), get_id(b[jb])) THEN
            [host_a |-> a[ia], host_b |-> Host(0), i |-> ia + 1, j |-> jb]
        ELSE IF id_lt(get_id(b[jb]), get_id(a[ia])) THEN
            [host_a |-> Host(0), host_b |-> b[jb], i |-> ia, j |-> jb + 1]
        ELSE
            [host_a |-> a[ia], host_b |-> b[jb], i |-> ia + 1, j |-> jb + 1]
    ELSE IF ia <= Len(a) THEN
        [host_a |-> a[ia], host_b |-> Host(0), i |-> ia + 1, j |-> jb]
    ELSE
        [host_a |-> Host(0), host_b |-> b[jb], i |-> ia, j |-> jb + 1]

\* What the loop of ScanDiff.output adds to cost from the positions ia and
\* jb of the sorted host lists a and b on.
RECURSIVE output_cost_from(_, _, _, _)
output_cost_from(a, b, ia, jb) ==
    IF ia > Len(a) /\ jb > Len(b) THEN 0
    ELSE LET pair == host_pairs_step(a, b, ia, jb)
         IN HostDiff(pair.host_a, pair.host_b).cost
            + output_cost_from(a, b, pair.i, pair.j)

\* The value ScanDiff.output returns for the host lists a and b.
output_cost(a, b) == output_cost_from(sort_hosts(a), sort_hosts(b), 1, 1)

Emit(part, k, lines, xml) ==
    Append(out, [part |-> part, k |-> k, stream |-> f,
                 lines |-> IF output_format = "text" THEN lines ELSE <<>>,
                 xml |-> IF output_format = "xml" THEN xml ELSE <<>>])

\* A call of output_pre_scripts or output_post_scripts: the lines that
\* ScanDiffText prints, or the nodes that ScanDiffXML writes.
EmitScripts(part, title, tag, results_a, results_b, diffs) ==
    Emit(part, Len(diffs),
         print_script_result_diffs_text(title, results_a, results_b, diffs),
         output_scripts_xml(tag, results_a, results_b, diffs))

\* output_host_diff for the HostDiff number n.  ScanDiffText: an empty
\* line and the lines of print_text go to self.f, the host script results
\* to the stream that print_script_result_diffs_text has by default.
\* ScanDiffXML: the hostdiff element goes to self.f.
output_host_diff(h_diff, n) ==
    [part |-> "host_diff",
     k |-> n,
     stream |-> f,
     lines |-> IF output_format = "text"
                  THEN <<[sign |-> "", body |-> [kind |-> "blank"]]>>
                       \o print_text(h_diff)
                  ELSE <<>>,
     script_stream |-> DefaultStream,
     script_lines |-> IF output_format = "text"
                         THEN print_script_result_diffs_text(
                                  "Host script results",
                                  h_diff.host_a.script_results,
                                  h_diff.host_b.script_results,
                                  h_diff.script_result_diffs)
                         ELSE <<>>,
     xml |-> IF output_format = "xml"
                THEN HostDiff_to_dom_fragment(h_diff) ELSE <<>>]

\* ScanDiff.output up to the call of output_beginning: both host lists are
\* sorted in place.
Begin ==
    /\ pc = "start"
    /\ scan_a' = [scan_a EXCEPT !.hosts = sort_hosts(scan_a.hosts)]
    /\ scan_b' = [scan_b EXCEPT !.hosts = sort_hosts(scan_b.hosts)]
    /\ out' = Emit("beginning", 0, output_beginning(scan_a, scan_b),
                   output_beginning_xml(scan_a, scan_b))
    /\ pc' = "pre_scripts"
    /\ UNCHANGED <<verbose, i, j, cost, h_diffs, pre_script_result_diffs,
                   post_script_result_diffs>>
    /\ UNCHANGED outer_vars

PreScripts ==
    /\ pc = "pre_scripts"
    /\ pre_script_result_diffs' =
           diff_lists(scan_a.pre_script_results, scan_b.pre_script_results)
    /\ out' = EmitScripts("pre_scripts", "Pre-scan script results", "prescript",
                          scan_a.pre_script_results, scan_b.pre_script_results,
                          pre_script_result_diffs')
    /\ cost' = 0
    /\ pc' = "hosts"
    /\ UNCHANGED <<verbose, scan_a, scan_b, i, j, h_diffs,
                   post_script_result_diffs>>
    /\ UNCHANGED outer_vars

\* Faulty variant of cost_added: the cost of the pair replaces the total.
cost_added_last(total, h_diff) == h_diff.cost

\* "cost += h_diff.cost"
cost_added(total, h_diff) == total + h_diff.cost

\* Faulty variant of host_diff_wanted: every pair is handed to the renderer.
host_diff_wanted_always(h_diff) == TRUE

\* "if h_diff.cost > 0 or verbose"
host_diff_wanted(h_diff) == h_diff.cost > 0 \/ verbose

\* One iteration of the loop over host_pairs(scan_a.hosts, scan_b.hosts).
HostPair ==
    /\ pc = "hosts"
    /\ i <= Len(scan_a.hosts) \/ j <= Len(scan_b.hosts)
    /\ LET pair == host_pairs_step(scan_a.hosts, scan_b.hosts, i, j)
           h_diff == HostDiff(pair.host_a, pair.host_b)
       IN /\ i' = pair.i
          /\ j' = pair.j
          /\ h_diffs' = Append(h_diffs, h_diff)
          /\ cost' = cost_added(cost, h_diff)
          /\ out' = IF host_diff_wanted(h_diff)
                       THEN Append(out, output_host_diff(h_diff,
                                                         Len(h_diffs) + 1))
                       ELSE out
    /\ UNCHANGED <<verbose, scan_a, scan_b, pc, pre_script_result_diffs,
                   post_script_result_diffs>>
    /\ UNCHANGED outer_vars

PostScripts ==
    /\ pc = "hosts"
    /\ i > Len(scan_a.hosts)
    /\ j > Len(scan_b.hosts)
    /\ post_script_result_diffs' =
           diff_lists(scan_a.post_script_results, scan_b.post_script_results)
    /\ out' = EmitScripts("post_scripts", "Post-scan script results", "postscript",
                          scan_a.post_script_results,
                          scan_b.post_script_results,
                          post_script_result_diffs')
    /\ pc' = "ending"
    /\ UNCHANGED <<verbose, scan_a, scan_b, i, j, cost, h_diffs,
                   pre_script_result_diffs>>
    /\ UNCHANGED outer_vars

\* output_ending, and the return of cost.
Ending ==
    /\ pc = "ending"
    /\ out' = Emit("ending", 0, <<>>, <<>>)
    /\ pc' = "done"
    /\ UNCHANGED <<verbose, scan_a, scan_b, i, j, cost, h_diffs,
                   pre_script_result_diffs, post_script_result_diffs>>
    /\ UNCHANGED outer_vars

----------------------------------------------------------------------------
(* The inputs: the scans that the comparison is run on.                    *)

SeqsUpTo(S, n) == UNION {[1..m -> S] : m \in 0..n}

MkHost(state, addresses, hostnames, ports, extraports, os, script_results) ==
    [oid |-> 0, state |-> state, addresses |-> addresses,
     hostnames |-> hostnames, ports |-> ports, extraports |-> extraports,
     os |-> os, script_results |-> script_results]

MkPort(spec, state, service, script_results) ==
    [spec |-> spec, state |-> state, service |-> service,
     script_results |-> script_results]

Http == [Service EXCEPT !.name = "http"]
Https == [Service EXCEPT !.name = "http", !.tunnel = "ssl"]

\* Sorted lists of script results, at most one per script id.
RECURSIVE ScriptLists(_)
ScriptLists(n) ==
    IF n = 0 THEN {<<>>}
    ELSE LET shorter == ScriptLists(n - 1)
         IN shorter \cup {Append(l, ScriptResult(n, o)) :
                            l \in shorter, o \in {"x", "y"}}

OsNames == {"Linux", "FreeBSD"}

\* The ways a host is identified: not at all, by one address, by two
\* addresses (the IPv4 one sorts first: id 2), and by a host name (id 2).
Identities ==
    { <<<<>>, <<>>>>,
      <<<<Address("ipv4", 1)>>, <<>>>>,
      <<<<Address("ipv6", 1), Address("ipv4", 2)>>, <<>>>>,
      <<<<>>, <<2>>>> }

IdentityHosts ==
    {MkHost("up", id[1], id[2], <<>>, <<>>, <<>>, <<>>) : id \in Identities}

StateHosts ==
    {MkHost(st, id[1], id[2], <<>>, <<>>, <<>>, <<>>) :
        st \in {None, "up", "down"}, id \in Identities}

\* The ports dict of a host: 80/tcp in every state, service and script
\* result of the model, 22/tcp open or closed, each possibly absent.
Http80 ==
    {MkPort(<<80, "tcp">>, st, sv, sr) :
        st \in {"open", "closed"}, sv \in {Service, Http},
        sr \in ScriptLists(1)}
    \cup {MkPort(<<80, "tcp">>, "open", Https, sr) : sr \in ScriptLists(1)}

Ssh22 == {MkPort(<<22, "tcp">>, st, Service, <<>>) : st \in {"open", "closed"}}

PortDicts ==
    {[spec \in {p.spec : p \in ps} |-> CHOOSE p \in ps : p.spec = spec] :
        ps \in {P1 \cup P2 : P1 \in {{}} \cup {{p} : p \in Http80},
                             P2 \in {{}} \cup {{p} : p \in Ssh22}}}

\* Extraports dicts by the order in which their items are iterated.
ExtraportsDicts ==
    { <<>>,
      <<<<"closed", 5>>>>,
      <<<<"closed", 5>>, <<"unfiltered", 3>>>>,
      <<<<"unfiltered", 3>>, <<"closed", 5>>>> }

PortHosts ==
    {MkHost("up", <<Address("ipv4", 1)>>, <<>>, ports, extraports, <<>>, <<>>) :
        ports \in PortDicts, extraports \in ExtraportsDicts}

OsHosts ==
    {MkHost("up", <<Address("ipv4", 1)>>, <<>>, <<>>, <<>>, os, <<>>) :
        os \in SeqsUpTo(OsNames, MaxOs)}

ScriptHosts ==
    {MkHost("up", <<Address("ipv4", 1)>>, <<>>, <<>>, <<>>, <<>>, sr) :
        sr \in ScriptLists(MaxScripts)}

\* Hosts that differ in several parts at once.
MixedHosts ==
    {MkHost(st, <<Address("ipv4", 1)>>, <<>>, ports, extraports, os, sr) :
        st \in {"up", "down"},
        ports \in {<<>>, [spec \in {<<80, "tcp">>} |->
                             MkPort(<<80, "tcp">>, "open", Http, <<>>)]},
        extraports \in {<<>>, <<<<"closed", 5>>>>},
        os \in {<<>>, <<"Linux">>},
        sr \in {<<>>, <<ScriptResult(1, "x")>>}}

HostFamilies == {StateHosts, PortHosts, OsHosts, ScriptHosts, MixedHosts}

Anonymous(h) == Len(h.addresses) = 0 /\ Len(h.hostnames) = 0

\* The hosts of the two lists are numbered through; those that get_id
\* identifies by id(self) may have their ids in any order.
AnonymousSlots(hs_a, hs_b) ==
    {k \in DOMAIN hs_a : Anonymous(hs_a[k])}
    \cup {Len(hs_a) + k : k \in {m \in DOMAIN hs_b : Anonymous(hs_b[m])}}

oid_of(slot, perm) == IF slot \in DOMAIN perm THEN perm[slot] ELSE slot

Scan(hs, first, perm) ==
    [hosts |-> [k \in DOMAIN hs |->
                   [hs[k] EXCEPT !.oid = oid_of(first + k, perm)]],
     pre_script_results |-> <<>>,
     post_script_results |-> <<>>,
     scanner |-> "nmap",
     version |-> None,
     args |-> None,
     start_date |-> <<>>,
     end_date |-> <<>>]

\* The state when ScanDiff.output is called on the scans a and b by a
\* ScanDiffText (format "text") or a ScanDiffXML (format "xml") that
\* writes to stream.
InitOutputAs(a, b, v, stream, format) ==
    /\ verbose = v
    /\ scan_a = a
    /\ scan_b = b
    /\ pc = "start"
    /\ i = 1
    /\ j = 1
    /\ cost = 0
    /\ h_diffs = <<>>
    /\ pre_script_result_diffs = <<>>
    /\ post_script_result_diffs = <<>>
    /\ out = <<>>
    /\ f = stream
    /\ opts = <<>>
    /\ opt_index = 1
    /\ input_filenames = <<>>
    /\ output_format = format
    /\ opened = <<>>
    /\ exit_code = <<>>
    /\ handler = None
    /\ events = <<>>

\* The same for a ScanDiffText with sys.stdout, the default of f.
InitOutput(a, b, v) == InitOutputAs(a, b, v, "sys.stdout", "text")

\* The same for the scans with the host lists hs_a and hs_b.
InitWith(hs_a, hs_b, v) ==
    \E perm \in Permutations(AnonymousSlots(hs_a, hs_b)) :
        InitOutput(Scan(hs_a, 0, perm), Scan(hs_b, Len(hs_a), perm), v)

\* Sorted lists of script results with outputs of no, one and two lines,
\* at most one result per script id.
RECURSIVE SectionLists(_)
SectionLists(n) ==
    IF n = 0 THEN {<<>>}
    ELSE LET shorter == SectionLists(n - 1)
         IN shorter \cup {Append(l, ScriptResult(n, o)) :
                            l \in shorter, o \in {NoOutput, "x", TwoLines}}

\* The host lists of the scans with script sections: no hosts, or the same
\* host up in the first scan and down in the second.
SectionHostLists ==
    { <<<<>>, <<>>>>,
      <<<<MkHost("up", <<Address("ipv4", 1)>>, <<>>, <<>>, <<>>, <<>>, <<>>)>>,
        <<MkHost("down", <<Address("ipv4", 1)>>, <<>>, <<>>, <<>>, <<>>, <<>>)>>>> }

\* Scans with pre-scan and post-scan script results.
InitScripts ==
    \E hs \in SectionHostLists, v \in BOOLEAN,
       pre_a, pre_b \in SectionLists(MaxScripts),
       post_a, post_b \in {<<>>, <<ScriptResult(1, "x")>>} :
        InitOutput([Scan(hs[1], 0, <<>>)
                       EXCEPT !.pre_script_results = pre_a,
                              !.post_script_results = post_a],
                   [Scan(hs[2], Len(hs[1]), <<>>)
                       EXCEPT !.pre_script_results = pre_b,
                              !.post_script_results = post_b],
                   v)

\* Host alignment: scans of up to MaxHosts hosts, in any order.
InitPairs ==
    \E hs_a, hs_b \in SeqsUpTo(IdentityHosts, MaxHosts), v \in BOOLEAN :
        InitWith(hs_a, hs_b, v)

\* Host comparison: scans of at most one host each.
InitHost ==
    \E family \in HostFamilies, v \in BOOLEAN :
        \E hs_a, hs_b \in SeqsUpTo(family, 1) : InitWith(hs_a, hs_b, v)

\* A scan and an identical copy of it (other Host objects, same contents).
SelfHosts ==
    {MkHost(st, id[1], id[2], c[1], c[2], c[3], c[4]) :
        st \in {None, "up"},
        id \in Identities,
        c \in { <<<<>>, <<>>, <<>>, <<>>>>,
                <<[spec \in {<<80, "tcp">>} |->
                      MkPort(<<80, "tcp">>, "open", Http,
                             <<ScriptResult(1, "x")>>)],
                  <<<<"closed", 5>>, <<"unfiltered", 3>>>>,
                  <<"Linux", "FreeBSD">>,
                  <<ScriptResult(1, "x"), ScriptResult(2, "y")>>>> }}

InitSelf ==
    \E hs \in SeqsUpTo(SelfHosts, MaxHosts), v \in BOOLEAN : InitWith(hs, hs, v)

\* Rendering: hosts with and without a status element, ports, OS matches
\* and host script results.
RenderHosts ==
    {MkHost(st, <<Address("ipv4", 1)>>, <<>>, ports, <<>>, os, sr) :
        st \in {None, "up"},
        ports \in {<<>>, [spec \in {<<80, "tcp">>} |->
                             MkPort(<<80, "tcp">>, "open", Http, <<>>)]},
        os \in {<<>>, <<"Linux">>},
        sr \in {<<>>, <<ScriptResult(1, "x")>>}}

\* Scans of at most one host each, the second possibly run with other
\* arguments and with a pre-scan script result, compared by a ScanDiffText
\* or a ScanDiffXML that writes to sys.stdout or to another stream.
InitRender ==
    \E hs_a, hs_b \in SeqsUpTo(RenderHosts, 1), v \in BOOLEAN,
       stream \in {"sys.stdout", "StringIO"}, format \in {"text", "xml"},
       args \in {None, "-sV"}, pre_b \in {<<>>, <<ScriptResult(1, "x")>>} :
        InitOutputAs(Scan(hs_a, 0, <<>>),
                     [Scan(hs_b, Len(hs_a), <<>>)
                         EXCEPT !.args = args, !.pre_script_results = pre_b],
                     v, stream, format)

----------------------------------------------------------------------------
(* main.  The options are written in their short form where there is one   *)
(* ("-h" for -h and --help, "-v" for -v and --verbose); "--bogus" is an     *)
(* option that getopt does not know.                                       *)

EXIT_EQUAL == 0
EXIT_DIFFERENT == 1
EXIT_ERROR == 2

Options == {"-h", "-v", "--text", "--xml", "--bogus"}

\* The files of the model: two Nmap reports of the same host, up in the
\* first and down in the second, a name that cannot be opened, and a file
\* that is no XML document.
FileNames == {"a.xml", "b.xml", "missing.xml", "garbled.xml"}

\* What Scan.load_from_file does with a file.
load_outcome(filename) ==
    CASE filename = "missing.xml" -> "IOError"
      [] filename = "garbled.xml" -> "SAXParseException"
      [] OTHER -> "loaded"

\* The scan loaded from a file; its Host objects get the ids first + 1 on.
load_from_file(filename, first) ==
    Scan(<<MkHost(IF filename = "a.xml" THEN "up" ELSE "down",
                  <<Address("ipv4", 1)>>, <<>>, <<>>, <<>>, <<>>, <<>>)>>,
         first, <<>>)

\* sys.exit(status), directly or by way of usage_error or excepthook.
exit(status) ==
    /\ exit_code' = <<status>>
    /\ pc' = "exited"

\* Faulty variant of contradictory: a second output format is accepted.
contradictory_never(format, wanted) == FALSE

\* "output_format is not None and output_format != wanted"
contradictory(format, wanted) == format # None /\ format # wanted

\* Faulty variant of exit_status: the cost is not looked at.
exit_status_equal(total) == EXIT_EQUAL

\* The value main returns for the cost of the comparison.
exit_status(total) == IF total = 0 THEN EXIT_EQUAL ELSE EXIT_DIFFERENT

\* The output format that the option o selects.
format_of(o) == IF o = "--text" THEN "text" ELSE "xml"

\* getopt.gnu_getopt: an option it does not know is a usage error.
main_getopt ==
    /\ pc = "getopt"
    /\ IF \E k \in DOMAIN opts : opts[k] = "--bogus"
          THEN exit(EXIT_ERROR)
          ELSE pc' = "options" /\ exit_code' = exit_code
    /\ UNCHANGED <<verbose, scan_a, scan_b, i, j, cost, h_diffs,
                   pre_script_result_diffs, post_script_result_diffs, out, f,
                   opts, opt_index, input_filenames, output_format, opened,
                   handler, events>>

\* One iteration of the loop over opts.
main_option ==
    /\ pc = "options"
    /\ opt_index <= Len(opts)
    /\ LET o == opts[opt_index]
       IN /\ opt_index' = opt_index + 1
          /\ IF o = "-h" THEN
                 exit(0) /\ UNCHANGED <<verbose, output_format>>
             ELSE IF o = "-v" THEN
                 /\ verbose' = TRUE
                 /\ UNCHANGED <<pc, exit_code, output_format>>
             ELSE IF contradictory(output_format, format_of(o)) THEN
                 exit(EXIT_ERROR) /\ UNCHANGED <<verbose, output_format>>
             ELSE
                 /\ output_format' = format_of(o)
                 /\ UNCHANGED <<verbose, pc, exit_code>>
    /\ UNCHANGED <<scan_a, scan_b, i, j, cost, h_diffs,
                   pre_script_result_diffs, post_script_result_diffs, out, f,
                   opts, input_filenames, opened, handler, events>>

\* After the loop: the number of file names and the default format.
main_filenames ==
    /\ pc = "options"
    /\ opt_index > Len(opts)
    /\ IF Len(input_filenames) # 2
          THEN exit(EXIT_ERROR) /\ UNCHANGED output_format
          ELSE /\ output_format' =
                      IF output_format = None THEN "text" ELSE output_format
               /\ pc' = "load_a"
               /\ exit_code' = exit_code
    /\ UNCHANGED <<verbose, scan_a, scan_b, i, j, cost, h_diffs,
                   pre_script_result_diffs, post_script_result_diffs, out, f,
                   opts, opt_index, input_filenames, opened, handler, events>>

\* scan_a = Scan(); scan_a.load_from_file(filename_a): an IOError is
\* caught and ends the run, any other exception reaches excepthook.
main_load_a ==
    /\ pc = "load_a"
    /\ opened' = Append(opened, input_filenames[1])
    /\ IF load_outcome(input_filenames[1]) = "loaded"
          THEN /\ scan_a' = load_from_file(input_filenames[1], 0)
               /\ pc' = "load_b"
               /\ exit_code' = exit_code
          ELSE exit(EXIT_ERROR) /\ UNCHANGED scan_a
    /\ UNCHANGED <<verbose, scan_b, i, j, cost, h_diffs,
                   pre_script_result_diffs, post_script_result_diffs, out, f,
                   opts, opt_index, input_filenames, output_format,
                   handler, events>>

\* The same for scan_b; then the ScanDiffText or ScanDiffXML is built.
main_load_b ==
    /\ pc = "load_b"
    /\ opened' = Append(opened, input_filenames[2])
    /\ IF load_outcome(input_filenames[2]) = "loaded"
          THEN /\ scan_b' = load_from_file(input_filenames[2],
                                           Len(scan_a.hosts))
               /\ pc' = "start"
               /\ exit_code' = exit_code
          ELSE exit(EXIT_ERROR) /\ UNCHANGED scan_b
    /\ UNCHANGED <<verbose, scan_a, i, j, cost, h_diffs,
                   pre_script_result_diffs, post_script_result_diffs, out, f,
                   opts, opt_index, input_filenames, output_format,
                   handler, events>>

\* "cost = diff.output()" has returned: main returns the exit status.
main_return ==
    /\ pc = "done"
    /\ exit(exit_status(cost))
    /\ UNCHANGED <<verbose, scan_a, scan_b, i, j, cost, h_diffs,
                   pre_script_result_diffs, post_script_result_diffs, out, f,
                   opts, opt_index, input_filenames, output_format, opened,
                   handler, events>>

\* The state when main is called; scan_a and scan_b are the empty Scan()
\* objects that main creates before it loads them.
InitMain ==
    \E os \in SeqsUpTo(Options, MaxOpts), fs \in SeqsUpTo(FileNames, MaxFiles) :
        /\ verbose = FALSE
        /\ scan_a = Scan(<<>>, 0, <<>>)
        /\ scan_b = Scan(<<>>, 0, <<>>)
        /\ pc = "getopt"
        /\ i = 1
        /\ j = 1
        /\ cost = 0
        /\ h_diffs = <<>>
        /\ pre_script_result_diffs = <<>>
        /\ post_script_result_diffs = <<>>
        /\ out = <<>>
        /\ f = "sys.stdout"
        /\ opts = os
        /\ opt_index = 1
        /\ input_filenames = fs
        /\ output_format = None
        /\ opened = <<>>
        /\ exit_code = <<>>
        /\ handler = None
        /\ events = <<>>

----------------------------------------------------------------------------
(* NmapContentHandler.  The handler is a record of its fields; current_host *)
(* is the position of the Host object in scan.hosts (0 for None) and        *)
(* current_port is <<>> for None and <<port>> otherwise; port_added tells   *)
(* that the Port object is also the one stored in the ports of the host.   *)
(* raised holds the name of the exception that left the handler, if any.   *)
(* The attributes of an element are a function of their names.             *)

has(attrs, name) == name \in DOMAIN attrs

\* attrs.get(name)
get(attrs, name) == IF has(attrs, name) THEN attrs[name] ELSE None

\* int(s) for the attribute values of the model: the numerals convert, any
\* other string is a ValueError.
is_int(s) == s \in {"0", "5", "22", "80"}

int(s) == CASE s = "0" -> 0 [] s = "5" -> 5 [] s = "22" -> 22 [] s = "80" -> 80

Raise(h, exception) == [h EXCEPT !.raised = exception]

warn(h) == [h EXCEPT !.warnings = @ + 1]

parent_element(h) ==
    IF Len(h.element_stack) = 0 THEN None
    ELSE h.element_stack[Len(h.element_stack)]

NewHandler ==
    [scan |-> [hosts |-> <<>>, pre_script_results |-> <<>>,
               post_script_results |-> <<>>, scanner |-> None,
               version |-> None, args |-> None, start_date |-> <<>>,
               end_date |-> <<>>],
     element_stack |-> <<>>,
     current_host |-> 0,
     current_port |-> <<>>,
     port_added |-> FALSE,
     raised |-> "",
     warnings |-> 0]

\* A change of the Port object current_port: it shows in the host's ports
\* when the object is stored there.
set_current_port(h, port) ==
    LET h1 == [h EXCEPT !.current_port = <<port>>]
    IN IF h.port_added
          THEN [h1 EXCEPT !.scan.hosts[h.current_host].ports =
                              (port.spec :> port) @@ @]
          ELSE h1

\* The order of the outputs of the model as strings.
output_rank(output) ==
    CASE output = NoOutput -> 0
      [] output = "x" -> 1
      [] output = TwoLines -> 2
      [] OTHER -> 3

\* ScriptResult.__cmp__
script_result_lt(x, y) ==
    \/ x.id < y.id
    \/ x.id = y.id /\ output_rank(x.output) < output_rank(y.output)

\* script_results.sort()
RECURSIVE sort_script_results(_)
sort_script_results(l) ==
    IF l = <<>> THEN <<>>
    ELSE LET n == Len(l)
             front == sort_script_results(SubSeq(l, 1, n - 1))
             p == Cardinality({k \in DOMAIN front :
                                  ~script_result_lt(l[n], front[k])})
         IN SubSeq(front, 1, p) \o <<l[n]>> \o SubSeq(front, p + 1, n - 1)

_start_nmaprun(h, attrs) ==
    IF parent_element(h) # None THEN Raise(h, "AssertionError")
    ELSE IF has(attrs, "start") /\ ~is_int(attrs["start"])
        THEN Raise(h, "ValueError")
    ELSE [h EXCEPT !.scan.start_date =
                       IF has(attrs, "start") THEN <<int(attrs["start"])>> ELSE @,
                   !.scan.scanner = get(attrs, "scanner"),
                   !.scan.args = get(attrs, "args"),
                   !.scan.version = get(attrs, "version")]

_start_host(h, attrs) ==
    IF parent_element(h) # "nmaprun" THEN Raise(h, "AssertionError")
    ELSE [h EXCEPT !.scan.hosts = Append(@, Host(Len(@) + 1)),
                   !.current_host = Len(h.scan.hosts) + 1]

_start_status(h, attrs) ==
    IF parent_element(h) # "host" \/ h.current_host = 0
        THEN Raise(h, "AssertionError")
    ELSE IF ~has(attrs, "state") THEN warn(h)
    ELSE [h EXCEPT !.scan.hosts[h.current_host].state = attrs["state"]]

_start_address(h, attrs) ==
    IF parent_element(h) # "host" \/ h.current_host = 0
        THEN Raise(h, "AssertionError")
    ELSE IF ~has(attrs, "addr") THEN warn(h)
    ELSE LET addrtype == IF has(attrs, "addrtype") THEN attrs["addrtype"]
                         ELSE "ipv4"
             address == Address(addrtype, attrs["addr"])
         IN IF addrtype \notin {"ipv4", "ipv6", "mac"}
               THEN Raise(h, "ValueError")
            ELSE IF address \in Range(h.scan.hosts[h.current_host].addresses)
               THEN h
            ELSE [h EXCEPT !.scan.hosts[h.current_host].addresses =
                               Append(@, address)]

_start_hostname(h, attrs) ==
    IF parent_element(h) # "hostnames" \/ h.current_host = 0
        THEN Raise(h, "AssertionError")
    ELSE IF ~has(attrs, "name") THEN warn(h)
    ELSE IF attrs["name"] \in Range(h.scan.hosts[h.current_host].hostnames)
        THEN h
    ELSE [h EXCEPT !.scan.hosts[h.current_host].hostnames =
                       Append(@, attrs["name"])]

\* extraports[state] = count on the dict as a sequence of items.
set_item(items, key, value) ==
    IF \E k \in DOMAIN items : items[k][1] = key
        THEN [k \in DOMAIN items |->
                 IF items[k][1] = key THEN <<key, value>> ELSE items[k]]
    ELSE Append(items, <<key, value>>)

_start_extraports(h, attrs) ==
    IF parent_element(h) # "ports" \/ h.current_host = 0
        THEN Raise(h, "AssertionError")
    ELSE LET state == get(attrs, "state")
             extraports == h.scan.hosts[h.current_host].extraports
             known == \E k \in DOMAIN extraports : extraports[k][1] = state
             count == IF has(attrs, "count") /\ is_int(attrs["count"])
                         THEN int(attrs["count"]) ELSE 0
             warnings == B(~has(attrs, "state")) + B(known)
                         + B(~(has(attrs, "count") /\ is_int(attrs["count"])))
         IN [h EXCEPT !.warnings = @ + warnings,
                      !.scan.hosts[h.current_host].extraports =
                          set_item(@, state, count)]

_start_port(h, attrs) ==
    IF parent_element(h) # "ports" \/ h.current_host = 0
        THEN Raise(h, "AssertionError")
    ELSE IF ~has(attrs, "portid") THEN warn(h)
    ELSE IF ~is_int(attrs["portid"]) THEN warn(h)
    ELSE IF ~has(attrs, "protocol") THEN warn(h)
    ELSE [h EXCEPT !.current_port =
                       <<Port(<<int(attrs["portid"]), attrs["protocol"]>>, None)>>,
                   !.port_added = FALSE]

\* Faulty variant of _start_state: a state element without the state
\* attribute adds the port, its state unknown, to the host.
_start_state_unknown(h, attrs) ==
    IF parent_element(h) # "port" \/ h.current_host = 0
        THEN Raise(h, "AssertionError")
    ELSE IF h.current_port = <<>> THEN h
    ELSE LET port == [h.current_port[1] EXCEPT !.state = get(attrs, "state")]
         IN [h EXCEPT !.current_port = <<port>>,
                      !.port_added = TRUE,
                      !.warnings = @ + B(~has(attrs, "state")),
                      !.scan.hosts[h.current_host].ports =
                          (port.spec :> port) @@ @]

_start_state(h, attrs) ==
    IF parent_element(h) # "port" \/ h.current_host = 0
        THEN Raise(h, "AssertionError")
    ELSE IF h.current_port = <<>> THEN h
    ELSE IF ~has(attrs, "state") THEN warn(h)
    ELSE LET port == [h.current_port[1] EXCEPT !.state = attrs["state"]]
         IN [h EXCEPT !.current_port = <<port>>,
                      !.port_added = TRUE,
                      !.scan.hosts[h.current_host].ports =
                          (port.spec :> port) @@ @]

_start_service(h, attrs) ==
    IF parent_element(h) # "port" \/ h.current_host = 0
        THEN Raise(h, "AssertionError")
    ELSE IF h.current_port = <<>> THEN h
    ELSE set_current_port(h,
             [h.current_port[1] EXCEPT
                 !.service = [name |-> get(attrs, "name"),
                              product |-> get(attrs, "product"),
                              version |-> get(attrs, "version"),
                              extrainfo |-> get(attrs, "extrainfo"),
                              tunnel |-> get(attrs, "tunnel")]])

_start_script(h, attrs) ==
    IF ~has(attrs, "id") THEN warn(h)
    ELSE IF ~has(attrs, "output") THEN warn(h)
    ELSE LET result == ScriptResult(attrs["id"], attrs["output"])
         IN IF parent_element(h) = "prescript"
               THEN [h EXCEPT !.scan.pre_script_results = Append(@, result)]
            ELSE IF parent_element(h) = "postscript"
               THEN [h EXCEPT !.scan.post_script_results = Append(@, result)]
            ELSE IF parent_element(h) = "hostscript"
               THEN IF h.current_host = 0 THEN Raise(h, "AttributeError")
                    ELSE [h EXCEPT !.scan.hosts[h.current_host].script_results =
                                       Append(@, result)]
            ELSE IF parent_element(h) = "port"
               THEN IF h.current_port = <<>> THEN Raise(h, "AttributeError")
                    ELSE set_current_port(h,
                             [h.current_port[1] EXCEPT
                                 !.script_results = Append(@, result)])
            ELSE warn(h)

_start_osmatch(h, attrs) ==
    IF parent_element(h) # "os" \/ h.current_host = 0
        THEN Raise(h, "AssertionError")
    ELSE IF ~has(attrs, "name") THEN warn(h)
    ELSE [h EXCEPT !.scan.hosts[h.current_host].os = Append(@, attrs["name"])]

_start_finished(h, attrs) ==
    IF parent_element(h) # "runstats" THEN Raise(h, "AssertionError")
    ELSE IF ~has(attrs, "time") THEN h
    ELSE IF ~is_int(attrs["time"]) THEN Raise(h, "ValueError")
    ELSE [h EXCEPT !.scan.end_date = <<int(attrs["time"])>>]

_end_host(h) ==
    IF h.current_host = 0 THEN Raise(h, "AttributeError")
    ELSE [h EXCEPT !.scan.hosts[h.current_host].script_results =
                       sort_script_results(@),
                   !.current_host = 0]

_end_port(h) ==
    IF h.current_port = <<>> THEN Raise(h, "AttributeError")
    ELSE [set_current_port(h,
              [h.current_port[1] EXCEPT
                  !.script_results = sort_script_results(@)])
            EXCEPT !.current_port = <<>>, !.port_added = FALSE]

\* "self.element_stack.append(name)", which an exception in the handler
\* prevents.
push(h, name) ==
    IF h.raised # "" THEN h
    ELSE [h EXCEPT !.element_stack = Append(@, name)]

\* NmapContentHandler.startElement
startElement(h, name, attrs) ==
    push(CASE name = "nmaprun" -> _start_nmaprun(h, attrs)
           [] name = "host" -> _start_host(h, attrs)
           [] name = "status" -> _start_status(h, attrs)
           [] name = "address" -> _start_address(h, attrs)
           [] name = "hostname" -> _start_hostname(h, attrs)
           [] name = "extraports" -> _start_extraports(h, attrs)
           [] name = "port" -> _start_port(h, attrs)
           [] name = "state" -> _start_state(h, attrs)
           [] name = "service" -> _start_service(h, attrs)
           [] name = "script" -> _start_script(h, attrs)
           [] name = "osmatch" -> _start_osmatch(h, attrs)
           [] name = "finished" -> _start_finished(h, attrs)
           [] OTHER -> h,
         name)

\* NmapContentHandler.endElement
endElement(h, name) ==
    LET popped == [h EXCEPT !.element_stack = SubSeq(@, 1, Len(@) - 1)]
    IN CASE name = "host" -> _end_host(popped)
         [] name = "port" -> _end_port(popped)
         [] OTHER -> popped

\* The parser sends the next element event; an exception ends the parse.
StartElement ==
    /\ pc = "parse"
    /\ handler.raised = ""
    /\ events # <<>>
    /\ Head(events).kind = "start"
    /\ handler' = startElement(handler, Head(events).name, Head(events).attrs)
    /\ events' = Tail(events)
    /\ UNCHANGED <<verbose, scan_a, scan_b, pc, i, j, cost, h_diffs,
                   pre_script_result_diffs, post_script_result_diffs, out, f,
                   opts, opt_index, input_filenames, output_format, opened,
                   exit_code>>

EndElement ==
    /\ pc = "parse"
    /\ handler.raised = ""
    /\ events # <<>>
    /\ Head(events).kind = "end"
    /\ handler' = endElement(handler, Head(events).name)
    /\ events' = Tail(events)
    /\ UNCHANGED <<verbose, scan_a, scan_b, pc, i, j, cost, h_diffs,
                   pre_script_result_diffs, post_script_result_diffs, out, f,
                   opts, opt_index, input_filenames, output_format, opened,
                   exit_code>>

----------------------------------------------------------------------------
(* The documents the parser is run on: one host with at most one port; the *)
(* status, address, port, state and script elements come with and without  *)
(* their required attributes.                                              *)

Element(name, attrs, children) ==
    <<[kind |-> "start", name |-> name, attrs |-> attrs]>>
    \o children
    \o <<[kind |-> "end", name |-> name, attrs |-> <<>>]>>

NmaprunAttrs ==
    {[scanner |-> "nmap", start |-> "0"], [scanner |-> "nmap", start |-> "soon"]}

StatusElements ==
    {<<>>, Element("status", [state |-> "up"], <<>>),
     Element("status", [reason |-> "echo-reply"], <<>>)}

AddressElements ==
    {Element("address", attrs, <<>>) :
        attrs \in {[addr |-> 1, addrtype |-> "ipv4"], [addr |-> 1],
                   [addrtype |-> "ipv4"], [addr |-> 1, addrtype |-> "bogus"]}}

PortAttrs ==
    {[portid |-> "80", protocol |-> "tcp"], [protocol |-> "tcp"],
     [portid |-> "http", protocol |-> "tcp"], [portid |-> "80"]}

StateElements ==
    {<<>>, Element("state", [state |-> "open"], <<>>),
     Element("state", [reason |-> "syn-ack"], <<>>)}

\* Two script elements, the one with the greater id first.
TwoScripts ==
    Element("script", [id |-> 2, output |-> "y"], <<>>)
    \o Element("script", [id |-> 1, output |-> "x"], <<>>)

ScriptElements ==
    {<<>>, TwoScripts}
    \cup {Element("script", attrs, <<>>) :
             attrs \in {[id |-> 1, output |-> "x"], [output |-> "x"],
                        [id |-> 1]}}

PortElements ==
    {<<>>} \cup
    {Element("port", attrs,
             state \o Element("service", [name |-> "http"], <<>>) \o script) :
        attrs \in PortAttrs, state \in StateElements, script \in ScriptElements}

HostscriptElements == {<<>>, Element("hostscript", <<>>, TwoScripts)}

PrescriptElements ==
    {Element("prescript", <<>>,
             Element("script", [id |-> 1, output |-> "x"], <<>>)),
     Element("prescript", <<>>, TwoScripts)}

PostscriptElements == {<<>>, Element("postscript", <<>>, TwoScripts)}

Documents ==
    {Element("nmaprun", nmaprun,
        prescript
        \o Element("host", <<>>,
              status \o address
              \o Element("hostnames", <<>>,
                         Element("hostname", [name |-> 2], <<>>))
              \o Element("ports", <<>>,
                    Element("extraports", [state |-> "closed", count |-> "5"],
                            <<>>)
                    \o port)
              \o Element("os", <<>>,
                         Element("osmatch", [name |-> "Linux"], <<>>))
              \o hostscript)
        \o postscript
        \o Element("runstats", <<>>,
                   Element("finished", [time |-> "5"], <<>>))) :
        nmaprun \in NmaprunAttrs, status \in StatusElements,
        address \in AddressElements, port \in PortElements,
        hostscript \in HostscriptElements, prescript \in PrescriptElements,
        postscript \in PostscriptElements}

\* The state when Scan.load has created the handler and the parser is
\* about to read a document.
InitParse ==
    \E document \in Documents :
        /\ verbose = FALSE
        /\ scan_a = Scan(<<>>, 0, <<>>)
        /\ scan_b = Scan(<<>>, 0, <<>>)
        /\ pc = "parse"
        /\ i = 1
        /\ j = 1
        /\ cost = 0
        /\ h_diffs = <<>>
        /\ pre_script_result_diffs = <<>>
        /\ post_script_result_diffs = <<>>
        /\ out = <<>>
        /\ f = "sys.stdout"
        /\ opts = <<>>
        /\ opt_index = 1
        /\ input_filenames = <<>>
        /\ output_format = None
        /\ opened = <<>>
        /\ exit_code = <<>>
        /\ handler = NewHandler
        /\ events = document

Init ==
    \/ InitPairs \/ InitHost \/ InitSelf \/ InitScripts \/ InitRender
    \/ InitMain \/ InitParse

Next == Begin \/ PreScripts \/ HostPair \/ PostScripts \/ Ending

Spec == Init /\ [][Next]_vars

SpecPairs == InitPairs /\ [][Next]_vars

SpecHost == InitHost /\ [][Next]_vars

SpecSelf == InitSelf /\ [][Next]_vars

SpecScripts == InitScripts /\ [][Next]_vars

SpecRender == InitRender /\ [][Next]_vars

\* A run of main: the options, the two loads, ScanDiff.output, the return.
NextMain ==
    \/ main_getopt
    \/ main_option
    \/ main_filenames
    \/ main_load_a
    \/ main_load_b
    \/ Next
    \/ main_return

SpecMain == InitMain /\ [][NextMain]_vars

\* A run of the parser over one document.
NextParse == StartElement \/ EndElement

SpecParse == InitParse /\ [][NextParse]_vars

----------------------------------------------------------------------------
(* Properties.                                                             *)

\* The loop over host_pairs has ended.
LoopDone ==
    /\ pc \in {"hosts", "ending", "done"}
    /\ i > Len(scan_a.hosts)
    /\ j > Len(scan_b.hosts)

SortedById(hosts) ==
    \A k, l \in DOMAIN hosts : k < l => ~id_lt(get_id(hosts[l]), get_id(hosts[k]))

NoDuplicateIds(hosts) ==
    \A k, l \in DOMAIN hosts : k # l => get_id(hosts[k]) # get_id(hosts[l])

\* What host_pairs requires of its two arguments.
AlignedInputs ==
    /\ pc # "start"
    /\ SortedById(scan_a.hosts) /\ NoDuplicateIds(scan_a.hosts)
    /\ SortedById(scan_b.hosts) /\ NoDuplicateIds(scan_b.hosts)

\* A host object of one of the scans, as opposed to a placeholder.
IsReal(h) == h.oid # 0

\* The id under which a pair was yielded.
PairId(d) == IF IsReal(d.host_a) THEN get_id(d.host_a) ELSE get_id(d.host_b)

\* C1: for id-sorted host lists without duplicate ids, host_pairs yields
\* every host of the first list exactly once as a left component, every
\* host of the second list exactly once as a right component, and as many
\* pairs as there are distinct ids in the two lists together.
C1_MergeJoinTotality ==
    (LoopDone /\ AlignedInputs) =>
        /\ \A k \in DOMAIN scan_a.hosts :
              Cardinality({n \in DOMAIN h_diffs :
                              h_diffs[n].host_a = scan_a.hosts[k]}) = 1
        /\ \A k \in DOMAIN scan_b.hosts :
              Cardinality({n \in DOMAIN h_diffs :
                              h_diffs[n].host_b = scan_b.hosts[k]}) = 1
        /\ Len(h_diffs) =
              Cardinality({get_id(h) : h \in Range(scan_a.hosts)
                                             \cup Range(scan_b.hosts)})

\* Two hosts per list, one id in common: three pairs.
C1_Witness ==
    /\ LoopDone /\ AlignedInputs
    /\ Len(scan_a.hosts) = 2
    /\ Len(scan_b.hosts) = 2
    /\ Len(h_diffs) = 3

\* C2: for id-sorted host lists without duplicate ids, two hosts of the
\* scans are in the same pair exactly when their ids are equal, every
\* other host is paired with an empty placeholder Host whose state is
\* None, and the pairs are yielded in ascending order of id.
C2_PairingAndOrder ==
    AlignedInputs =>
        /\ \A n \in DOMAIN h_diffs :
              LET d == h_diffs[n]
              IN /\ IsReal(d.host_a) \/ IsReal(d.host_b)
                 /\ (IsReal(d.host_a) /\ IsReal(d.host_b))
                        => get_id(d.host_a) = get_id(d.host_b)
                 /\ ~IsReal(d.host_a) => (d.host_a = Host(0) /\ d.host_a.state = None)
                 /\ ~IsReal(d.host_b) => (d.host_b = Host(0) /\ d.host_b.state = None)
        /\ \A n, m \in DOMAIN h_diffs :
              n < m => id_lt(PairId(h_diffs[n]), PairId(h_diffs[m]))
        /\ LoopDone =>
              \A k \in DOMAIN scan_a.hosts, l \in DOMAIN scan_b.hosts :
                  get_id(scan_a.hosts[k]) = get_id(scan_b.hosts[l]) =>
                      \E n \in DOMAIN h_diffs :
                          /\ h_diffs[n].host_a = scan_a.hosts[k]
                          /\ h_diffs[n].host_b = scan_b.hosts[l]

\* A left-only pair, a matched pair and a right-only pair, in this order.
C2_Witness ==
    /\ LoopDone /\ AlignedInputs
    /\ Len(h_diffs) = 3
    /\ IsReal(h_diffs[1].host_a) /\ ~IsReal(h_diffs[1].host_b)
    /\ IsReal(h_diffs[2].host_a) /\ IsReal(h_diffs[2].host_b)
    /\ ~IsReal(h_diffs[3].host_a) /\ IsReal(h_diffs[3].host_b)

\* The same host, whichever object holds it.
Contents(h) == [h EXCEPT !.oid = 0]

Occurrences(hosts, c) == Cardinality({k \in DOMAIN hosts : Contents(hosts[k]) = c})

\* scan_b is an identical copy of scan_a.
IdenticalScans ==
    /\ Len(scan_a.hosts) = Len(scan_b.hosts)
    /\ \A k \in DOMAIN scan_a.hosts :
          LET c == Contents(scan_a.hosts[k])
          IN Occurrences(scan_a.hosts, c) = Occurrences(scan_b.hosts, c)
    /\ scan_a.pre_script_results = scan_b.pre_script_results
    /\ scan_a.post_script_results = scan_b.post_script_results

\* Every PortDiff that HostDiff.diff builds for d, included or not.
PortDiffsBuilt(d) ==
    {PortDiff(port_or_new(d.host_a, spec), port_or_new(d.host_b, spec)) :
        spec \in DOMAIN d.host_a.ports \cup DOMAIN d.host_b.ports}

AllCostsZero ==
    /\ \A n \in DOMAIN h_diffs :
          /\ h_diffs[n].cost = 0
          /\ \A pd \in PortDiffsBuilt(h_diffs[n]) : pd.cost = 0
    /\ pc = "done" => cost = 0

\* C3 as stated: in non-verbose mode, comparing a scan with an identical
\* copy yields cost 0 for every HostDiff and PortDiff built and returns 0,
\* for every scan.
C3_Original == (~verbose /\ IdenticalScans) => AllCostsZero

\* C3 as amended: the same, for every scan whose hosts each have at least
\* one address or host name.
C3_IdentityLaw ==
    (/\ ~verbose
     /\ IdenticalScans
     /\ \A h \in Range(scan_a.hosts) : ~Anonymous(h))
        => AllCostsZero

\* Two hosts with ports, OS matches and script results, compared with
\* their copies at no cost.
C3_Witness ==
    /\ pc = "done"
    /\ ~verbose
    /\ IdenticalScans
    /\ Len(h_diffs) = 2
    /\ \A n \in DOMAIN h_diffs :
          /\ ~Anonymous(h_diffs[n].host_a)
          /\ IsReal(h_diffs[n].host_b)
          /\ h_diffs[n].host_a.os # <<>>
          /\ DOMAIN h_diffs[n].host_a.ports # {}
          /\ h_diffs[n].host_a.script_results # <<>>
    /\ cost = 0

----------------------------------------------------------------------------
(* Properties of HostDiff and PortDiff.                                    *)

\* The sum of the costs of the PortDiffs stored in d.port_diffs, taken in
\* the order of d.ports.
PortTerm(d) ==
    SeqSum([k \in DOMAIN d.ports |-> d.port_diffs[d.ports[k].spec].cost])

\* The opcode runs of os_diffs that are not "equal", and the elements of
\* the two lists that they cover.
OsRunsChanged(os_diffs) ==
    Cardinality({k \in DOMAIN os_diffs : os_diffs[k][1] # "equal"})

OsElementsChanged(os_diffs) ==
    SeqSum([k \in DOMAIN os_diffs |->
               IF os_diffs[k][1] = "equal" THEN 0
               ELSE (os_diffs[k][3] - os_diffs[k][2])
                    + (os_diffs[k][5] - os_diffs[k][4])])

\* The script ids that are on one side only or have different output.
ScriptIds(l) == {l[k].id : k \in DOMAIN l}

OutputsOf(l, id) == {l[k].output : k \in {m \in DOMAIN l : l[m].id = id}}

ScriptIdsDiffering(a, b) ==
    Cardinality({id \in ScriptIds(a) \cup ScriptIds(b) :
                    OutputsOf(a, id) # OutputsOf(b, id)})

\* The cost of d, with os, ep and sc for what the OS lists, the extraports
\* and the host script results add to it.
CostWith(d, os, ep, sc) ==
    B(d.state_changed) + B(d.id_changed) + PortTerm(d) + os + ep + sc

\* A host that differs from the empty placeholder.
NonEmptyHost(h) == Contents(h) # Host(0)

\* C4 as stated: against a scan without hosts every host of A gets a
\* HostDiff of cost at least 1, and the reverse comparison gives each host
\* the same cost.
C4_Original ==
    \A n \in DOMAIN h_diffs :
        LET d == h_diffs[n]
        IN /\ scan_b.hosts = <<>> =>
                 (d.cost >= 1 /\ HostDiff(Host(0), d.host_a).cost = d.cost)
           /\ scan_a.hosts = <<>> =>
                 (d.cost >= 1 /\ HostDiff(d.host_b, Host(0)).cost = d.cost)

\* C4 as amended: the same, the lower bound of 1 holding for every host
\* that has a state, an address, a host name, a port, an extraports entry,
\* an OS match or a script result.
C4_SymmetryOfAbsence ==
    \A n \in DOMAIN h_diffs :
        LET d == h_diffs[n]
        IN /\ scan_b.hosts = <<>> =>
                 /\ d.host_b = Host(0)
                 /\ NonEmptyHost(d.host_a) => d.cost >= 1
                 /\ HostDiff(Host(0), d.host_a).cost = d.cost
           /\ scan_a.hosts = <<>> =>
                 /\ d.host_a = Host(0)
                 /\ NonEmptyHost(d.host_b) => d.cost >= 1
                 /\ HostDiff(d.host_b, Host(0)).cost = d.cost

\* A host with ports and extraports compared with no host at all.
C4_Witness ==
    /\ pc = "done"
    /\ scan_b.hosts = <<>>
    /\ Len(h_diffs) = 1
    /\ Cardinality(DOMAIN h_diffs[1].host_a.ports) = 2
    /\ h_diffs[1].host_a.extraports # <<>>
    /\ h_diffs[1].cost >= 4

\* C5: HostDiff.cost is (1 if state_changed) + (1 if id_changed) + the sum
\* of the costs of exactly the PortDiffs in port_diffs + the OS-change cost
\* + (1 if extraports_changed) + the number of host script-result diffs,
\* and is never negative.
C5_CostIsSum ==
    \A n \in DOMAIN h_diffs :
        LET d == h_diffs[n]
        IN /\ DOMAIN d.port_diffs = {d.ports[k].spec : k \in DOMAIN d.ports}
           /\ Len(d.ports) = Cardinality(DOMAIN d.port_diffs)
           /\ d.cost = CostWith(d, OsRunsChanged(d.os_diffs),
                                B(d.extraports_changed),
                                Len(d.script_result_diffs))
           /\ d.cost >= 0

\* A HostDiff in which every term of the sum is positive.
C5_Witness ==
    \E n \in DOMAIN h_diffs :
        LET d == h_diffs[n]
        IN /\ d.state_changed
           /\ PortTerm(d) > 0
           /\ OsRunsChanged(d.os_diffs) > 0
           /\ d.extraports_changed
           /\ Len(d.script_result_diffs) > 0
           /\ IsReal(d.host_a) /\ IsReal(d.host_b)

\* C6: PortDiff.cost is (1 if the specs differ) + (1 if the states differ)
\* + (1 if the services differ) + the number of script ids that are
\* unmatched or have different output.
C6_Original ==
    \A n \in DOMAIN h_diffs :
        \A pd \in PortDiffsBuilt(h_diffs[n]) :
            pd.cost = B(pd.port_a.spec # pd.port_b.spec)
                      + B(pd.port_a.state # pd.port_b.state)
                      + B(~Service_eq(pd.port_a.service, pd.port_b.service))
                      + ScriptIdsDiffering(pd.port_a.script_results,
                                           pd.port_b.script_results)

\* What the OS lists add to the cost of d.
OsCostAdded(d) ==
    d.cost - CostWith(d, 0, B(d.extraports_changed), Len(d.script_result_diffs))

\* C7 as stated: the OS-change cost is the number of OS-match elements
\* covered by the runs that are not "equal".
C7_Original ==
    \A n \in DOMAIN h_diffs :
        OsCostAdded(h_diffs[n]) = OsElementsChanged(h_diffs[n].os_diffs)

\* C7 as amended: the OS-change cost is the number of opcode runs of the
\* alignment of host_a.os with host_b.os that are not "equal": every such
\* run contributes 1, however many elements it covers.
C7_OsCostCountsRuns ==
    \A n \in DOMAIN h_diffs :
        LET d == h_diffs[n]
        IN /\ d.os_diffs = get_opcodes(d.host_a.os, d.host_b.os)
           /\ OsCostAdded(d) = OsRunsChanged(d.os_diffs)
           /\ d.os_changed <=> OsCostAdded(d) > 0

\* One run that is not "equal" and covers two OS matches.
C7_Witness ==
    \E n \in DOMAIN h_diffs :
        LET d == h_diffs[n]
        IN /\ OsRunsChanged(d.os_diffs) = 1
           /\ OsElementsChanged(d.os_diffs) >= 2
           /\ OsCostAdded(d) = 1

\* C8: extraports_changed is set, and 1 added to the cost, exactly when
\* the two extraports mappings differ as sets of (state, count) pairs.
C8_Original ==
    \A n \in DOMAIN h_diffs :
        LET d == h_diffs[n]
            differ == Range(d.host_a.extraports) # Range(d.host_b.extraports)
        IN /\ d.extraports_changed <=> differ
           /\ d.cost = CostWith(d, OsRunsChanged(d.os_diffs), B(differ),
                                Len(d.script_result_diffs))

\* C9: the host script results add one unit of cost for each script id
\* that is on one side only or on both sides with different output, and
\* nothing for a script result that is equal on both sides.
C9_Original ==
    \A n \in DOMAIN h_diffs :
        LET d == h_diffs[n]
        IN d.cost = CostWith(d, OsRunsChanged(d.os_diffs),
                             B(d.extraports_changed),
                             ScriptIdsDiffering(d.host_a.script_results,
                                                d.host_b.script_results))

\* "host.is_extraports(state)", spelled out.
ClassifiedExtraports(h, state) ==
    state = None \/ \E k \in DOMAIN h.extraports : h.extraports[k][1] = state

\* The rule of inclusion for the PortDiff pd of the hosts of d.
ToInclude(d, pd) ==
    /\ ~(/\ ClassifiedExtraports(d.host_a, pd.port_a.state)
         /\ ClassifiedExtraports(d.host_b, pd.port_b.state))
    /\ pd.cost > 0 \/ verbose

\* C10: a PortDiff is included in a HostDiff (its port in ports, the diff
\* in port_diffs, its cost in the host's cost) if and only if the two
\* sides do not both classify their port's state as extraports and,
\* besides, its cost is positive or verbose is set.
C10_Inclusion ==
    \A n \in DOMAIN h_diffs :
        LET d == h_diffs[n]
            built == PortDiffsBuilt(d)
            specs == all_specs(d.host_a, d.host_b)
        IN /\ \A pd \in built :
                 LET spec == pd.port_a.spec
                     stored == spec \in DOMAIN d.port_diffs
                     listed == \E k \in DOMAIN d.ports : d.ports[k].spec = spec
                 IN /\ stored <=> ToInclude(d, pd)
                    /\ listed <=> ToInclude(d, pd)
                    /\ stored => d.port_diffs[spec] = pd
           /\ PortTerm(d) =
                 SeqSum([k \in DOMAIN specs |->
                            LET pd == PortDiff(port_or_new(d.host_a, specs[k]),
                                               port_or_new(d.host_b, specs[k]))
                            IN IF ToInclude(d, pd) THEN pd.cost ELSE 0])
           /\ d.cost = CostWith(d, OsRunsChanged(d.os_diffs),
                                B(d.extraports_changed),
                                Len(d.script_result_diffs))

\* In verbose mode, a port that both sides classify as extraports is
\* dropped although its PortDiff has a cost, next to a port that is kept.
C10_Witness ==
    /\ verbose
    /\ \E n \in DOMAIN h_diffs :
          LET d == h_diffs[n]
          IN /\ IsReal(d.host_a) /\ IsReal(d.host_b)
             /\ Len(d.ports) = 1
             /\ \E pd \in PortDiffsBuilt(d) :
                   /\ pd.cost > 0
                   /\ pd.port_a.state # None
                   /\ ~ToInclude(d, pd)

----------------------------------------------------------------------------
(* Properties of the total cost.                                           *)

\* The states a port is changed to.
PortStates == {"open", "closed", "unfiltered"}

\* The host list hosts with the state of the port spec of its host k set
\* to state.
WithPortState(hosts, k, spec, state) ==
    [hosts EXCEPT ![k].ports[spec].state = state]

\* Both hosts classify the states of their two ports as extraports.
BothExtraports(host_a, state_a, host_b, state_b) ==
    /\ ClassifiedExtraports(host_a, state_a)
    /\ ClassifiedExtraports(host_b, state_b)

\* The comparison has ended with one pair of hosts that both list a port
\* spec in the same state.
SameStatePort(spec) ==
    /\ pc = "done"
    /\ Len(h_diffs) = 1
    /\ Len(scan_a.hosts) = 1 /\ Len(scan_b.hosts) = 1
    /\ spec \in DOMAIN scan_a.hosts[1].ports
    /\ spec \in DOMAIN scan_b.hosts[1].ports
    /\ scan_a.hosts[1].ports[spec].state = scan_b.hosts[1].ports[spec].state
    /\ scan_a.hosts[1].ports[spec].state # None

\* C11 as stated: whenever a port has the same state on both sides,
\* changing its state on one side only raises the total cost of the
\* comparison by exactly 1.
C11_Original ==
    \A spec \in {<<80, "tcp">>, <<22, "tcp">>} :
        SameStatePort(spec) =>
            \A state \in PortStates \ {scan_a.hosts[1].ports[spec].state} :
                /\ output_cost(WithPortState(scan_a.hosts, 1, spec, state),
                               scan_b.hosts) = cost + 1
                /\ output_cost(scan_a.hosts,
                               WithPortState(scan_b.hosts, 1, spec, state))
                       = cost + 1

\* C11 as amended: the same, provided that the two sides do not both
\* classify the port's state as extraports, neither before the change nor
\* after it.
C11_CostMonotonicity ==
    \A spec \in {<<80, "tcp">>, <<22, "tcp">>} :
        SameStatePort(spec) =>
            LET host_a == scan_a.hosts[1]
                host_b == scan_b.hosts[1]
                old == host_a.ports[spec].state
            IN /\ cost = output_cost(scan_a.hosts, scan_b.hosts)
               /\ \A state \in PortStates \ {old} :
                     /\ (/\ ~BothExtraports(host_a, old, host_b, old)
                          /\ ~BothExtraports(host_a, state, host_b, old))
                            => output_cost(
                                   WithPortState(scan_a.hosts, 1, spec, state),
                                   scan_b.hosts) = cost + 1
                     /\ (/\ ~BothExtraports(host_a, old, host_b, old)
                          /\ ~BothExtraports(host_a, old, host_b, state))
                            => output_cost(
                                   scan_a.hosts,
                                   WithPortState(scan_b.hosts, 1, spec, state))
                                   = cost + 1

\* Port 80/tcp is closed on both sides and differs in its service, port
\* 22/tcp is equal on both sides and not reported; only the first host
\* summarises closed ports as extraports, so a change of either port's
\* state counts.
C11_Witness ==
    /\ ~verbose
    /\ SameStatePort(<<80, "tcp">>)
    /\ SameStatePort(<<22, "tcp">>)
    /\ scan_a.hosts[1].ports[<<80, "tcp">>].state = "closed"
    /\ scan_a.hosts[1].extraports = <<<<"closed", 5>>>>
    /\ scan_b.hosts[1].extraports = <<>>
    /\ cost = 1
    /\ output_cost(WithPortState(scan_a.hosts, 1, <<22, "tcp">>, "unfiltered"),
                   scan_b.hosts) = 2

\* The costs of the HostDiffs built so far, in order.
HostCosts == [n \in DOMAIN h_diffs |-> h_diffs[n].cost]

\* The HostDiff number n was handed to output_host_diff.
Emitted(n) == \E k \in DOMAIN out : out[k].part = "host_diff" /\ out[k].k = n

\* C12: ScanDiff.output returns exactly the sum of HostDiff.cost over all
\* the pairs that host_pairs yields for the two sorted host lists, every
\* pair counted once whether or not it was handed to the renderer.
C12_TotalIsSumOfHostCosts ==
    /\ pc \in {"hosts", "ending", "done"} => cost = SeqSum(HostCosts)
    /\ pc = "done" =>
          /\ cost = output_cost(scan_a.hosts, scan_b.hosts)
          /\ Len(h_diffs) >= Cardinality({n \in DOMAIN h_diffs : Emitted(n)})

\* Three pairs: one that costs nothing and is not rendered, two that cost
\* 1 each.
C12_Witness ==
    /\ pc = "done"
    /\ ~verbose
    /\ Len(h_diffs) = 3
    /\ \E n \in DOMAIN h_diffs : h_diffs[n].cost = 0 /\ ~Emitted(n)
    /\ Cardinality({n \in DOMAIN h_diffs : Emitted(n)}) = 2
    /\ cost = 2

\* C13: a host pair is handed to output_host_diff if and only if the cost
\* of its HostDiff is greater than 0 or verbose is set, and then once; in
\* non-verbose mode a pair of cost 0 is never handed over.
C13_EmissionRule ==
    /\ \A n \in DOMAIN h_diffs :
          /\ Emitted(n) <=> (h_diffs[n].cost > 0 \/ verbose)
          /\ (~verbose /\ h_diffs[n].cost = 0) => ~Emitted(n)
          /\ Cardinality({k \in DOMAIN out :
                             out[k].part = "host_diff" /\ out[k].k = n}) <= 1
    /\ \A k \in DOMAIN out :
          out[k].part = "host_diff" => out[k].k \in DOMAIN h_diffs

\* Without verbose, a pair of equal hosts that is passed over and a pair
\* that is rendered.
C13_Witness ==
    /\ ~verbose
    /\ \E n, m \in DOMAIN h_diffs :
          /\ h_diffs[n].cost = 0
          /\ IsReal(h_diffs[n].host_a) /\ IsReal(h_diffs[n].host_b)
          /\ ~Emitted(n)
          /\ h_diffs[m].cost > 0
          /\ Emitted(m)

\* The place of a part in the order of ScanDiff.output.
PartRank(part) ==
    CASE part = "beginning" -> 1
      [] part = "pre_scripts" -> 2
      [] part = "host_diff" -> 3
      [] part = "post_scripts" -> 4
      [] part = "ending" -> 5

\* C14: ScanDiff.output emits beginning, the pre-scan script section, the
\* host diffs, the post-scan script section and ending, in this order and
\* the four sections once each; no host diff with a larger id is emitted
\* before one with a smaller id.
C14_OutputOrder ==
    /\ \A k, l \in DOMAIN out :
          k < l =>
             /\ PartRank(out[k].part) <= PartRank(out[l].part)
             /\ out[k].part = out[l].part => out[k].part = "host_diff"
             /\ (out[k].part = "host_diff" /\ out[l].part = "host_diff") =>
                    /\ out[k].k < out[l].k
                    /\ ~id_lt(PairId(h_diffs[out[l].k]), PairId(h_diffs[out[k].k]))
    /\ Len(out) >= 1 => out[1].part = "beginning"
    /\ Len(out) >= 2 => out[2].part = "pre_scripts"
    /\ Len(h_diffs) > 0 => Len(out) >= 2
    /\ pc = "done" =>
          /\ Len(out) >= 4
          /\ out[Len(out) - 1].part = "post_scripts"
          /\ out[Len(out)].part = "ending"

\* Three host diffs with three different ids between the two script
\* sections.
C14_Witness ==
    /\ pc = "done"
    /\ Len(out) = 7
    /\ \A k \in 3..5 : out[k].part = "host_diff"
    /\ id_lt(PairId(h_diffs[out[3].k]), PairId(h_diffs[out[4].k]))
    /\ id_lt(PairId(h_diffs[out[4].k]), PairId(h_diffs[out[5].k]))

\* Python's comparison of the sort keys of two addresses.
AddressLeq(a, b) == ~TupleLess(sort_key(b), sort_key(a))

\* The hosts of the two scans.
ScanHosts == Range(scan_a.hosts) \cup Range(scan_b.hosts)

\* C15: get_id returns the string of the sorted-least address of a host
\* that has an address, else its sorted-least host name, else a value of
\* its own that no other host has; and host_pairs never puts two hosts of
\* the scans that both have no address and no host name in the same pair,
\* even when the two scans are identical.
C15_IdentityFallback ==
    /\ \A h \in ScanHosts :
          /\ h.addresses # <<>> =>
                \E a \in Range(h.addresses) :
                    /\ \A b \in Range(h.addresses) : AddressLeq(a, b)
                    /\ get_id(h) = IdStr(a.s)
          /\ (h.addresses = <<>> /\ h.hostnames # <<>>) =>
                \E n \in Range(h.hostnames) :
                    /\ \A m \in Range(h.hostnames) : n <= m
                    /\ get_id(h) = IdStr(n)
          /\ Anonymous(h) =>
                \A g \in ScanHosts : g.oid # h.oid => get_id(g) # get_id(h)
    /\ \A n \in DOMAIN h_diffs :
          ~(/\ IsReal(h_diffs[n].host_a) /\ Anonymous(h_diffs[n].host_a)
            /\ IsReal(h_diffs[n].host_b) /\ Anonymous(h_diffs[n].host_b))

\* Two identical scans of a host without address and name and of a host
\* with two addresses: the first host is paired with a placeholder on
\* either side, the second with its copy.
C15_Witness ==
    /\ pc = "done"
    /\ IdenticalScans
    /\ Len(scan_a.hosts) = 2
    /\ Len(h_diffs) = 3
    /\ \E n, m, l \in DOMAIN h_diffs :
          /\ Anonymous(h_diffs[n].host_a) /\ IsReal(h_diffs[n].host_a)
          /\ ~IsReal(h_diffs[n].host_b)
          /\ Anonymous(h_diffs[m].host_b) /\ IsReal(h_diffs[m].host_b)
          /\ ~IsReal(h_diffs[m].host_a)
          /\ Len(h_diffs[l].host_a.addresses) = 2
          /\ IsReal(h_diffs[l].host_b)

\* The two hosts of d have the same single address and state "up" and
\* differ only in port 80/tcp, open in host_a and closed in host_b, and
\* neither host lists open or closed in its extraports.
Port80Scenario(d) ==
    /\ IsReal(d.host_a) /\ IsReal(d.host_b)
    /\ Len(d.host_a.addresses) = 1
    /\ d.host_a.state = "up"
    /\ <<80, "tcp">> \in DOMAIN d.host_a.ports
    /\ d.host_a.ports[<<80, "tcp">>].state = "open"
    /\ Contents(d.host_b) =
           Contents([d.host_a EXCEPT !.ports[<<80, "tcp">>].state = "closed"])
    /\ \A k \in DOMAIN d.host_a.extraports :
           d.host_a.extraports[k][1] \notin {"open", "closed"}

\* C17: for two hosts with the same single address and state "up" whose
\* only difference is that port 80/tcp is open in scan A and closed in
\* scan B (neither state listed in extraports), the PortDiff of 80/tcp is
\* included in the HostDiff and HostDiff.cost is 1.
C17_Original ==
    \A n \in DOMAIN h_diffs :
        LET d == h_diffs[n]
        IN Port80Scenario(d) =>
              /\ <<80, "tcp">> \in DOMAIN d.port_diffs
              /\ d.cost = 1

----------------------------------------------------------------------------
(* Properties of the script sections.                                      *)

\* The part of the output that output_pre_scripts produced.
PreScriptsPart == out[2]

\* Scan A has one pre-scan script result, scan B has none, and
\* output_pre_scripts has run.
OnePreScriptInA ==
    /\ pc \in {"hosts", "ending", "done"}
    /\ Len(scan_a.pre_script_results) = 1
    /\ scan_b.pre_script_results = <<>>

\* C16: when scan A has one pre-scan script result and scan B has none,
\* the comparison builds exactly one ScriptResultDiff for the pre-scan
\* section, with sr_b = None; the text report renders it as a block whose
\* lines (after the empty line that sets the block off) all start with
\* "-"; the section holds one unit of cost, and no host's cost holds any
\* of it.
C16_Original ==
    OnePreScriptInA =>
        /\ pre_script_result_diffs =
               <<ScriptResultDiff(scan_a.pre_script_results[1], NoScriptResult)>>
        /\ PreScriptsPart.k = 1
        /\ Len(PreScriptsPart.lines) >= 3
        /\ PreScriptsPart.lines[1].sign = ""
        /\ \A k \in 2..Len(PreScriptsPart.lines) :
               PreScriptsPart.lines[k].sign = "-"
        /\ \A n \in DOMAIN h_diffs :
               h_diffs[n].cost = HostDiff(h_diffs[n].host_a, h_diffs[n].host_b).cost

----------------------------------------------------------------------------
(* Properties of main.                                                     *)

\* Both input files were opened and loaded.
BothLoaded ==
    /\ Len(opened) = 2
    /\ load_outcome(opened[1]) = "loaded"
    /\ load_outcome(opened[2]) = "loaded"

\* ScanDiff.output has run to its end.
Completed == Len(out) > 0 /\ out[Len(out)].part = "ending"

\* C18: when both inputs load, the process exits with 0 exactly when the
\* cost returned by the comparison is 0 and with 1 exactly when it is
\* greater than 0; a completed comparison never ends in the exit status 2.
C18_ExitStatus ==
    /\ pc # "exited" => exit_code = <<>>
    /\ (pc = "exited" /\ BothLoaded) =>
          /\ Completed
          /\ cost = SeqSum(HostCosts)
          /\ exit_code = <<EXIT_EQUAL>> <=> cost = 0
          /\ exit_code = <<EXIT_DIFFERENT>> <=> cost > 0
    /\ (pc = "exited" /\ Completed) => exit_code # <<EXIT_ERROR>>

\* A run that compared two reports of a host, found its state changed and
\* exited with 1.
C18_Witness ==
    /\ pc = "exited"
    /\ BothLoaded
    /\ Len(h_diffs) = 1
    /\ h_diffs[1].state_changed
    /\ cost = 1
    /\ exit_code = <<EXIT_DIFFERENT>>

\* The options os select both output formats.
Contradictory(os) ==
    \E k, l \in DOMAIN os :
        /\ os[k] \in {"--text", "--xml"}
        /\ os[l] \in {"--text", "--xml"}
        /\ os[k] # os[l]

\* Two file names are given and one of them cannot be opened.
Unopenable ==
    /\ Len(input_filenames) = 2
    /\ \E k \in 1..2 : load_outcome(input_filenames[k]) = "IOError"

\* The conditions of C19.
StartupError ==
    \/ Len(input_filenames) # 2
    \/ Contradictory(opts)
    \/ Unopenable

\* The command line is one that getopt accepts and asks for help before
\* it selects two output formats.
HelpComesFirst ==
    /\ \A k \in DOMAIN opts : opts[k] # "--bogus"
    /\ \E k \in DOMAIN opts :
          opts[k] = "-h" /\ ~Contradictory(SubSeq(opts, 1, k))

\* C19 as stated: if the number of input reports is not two, or both
\* output formats are selected, or an input file cannot be opened, the
\* run ends with the exit status 2 before any HostDiff is built and any
\* output is produced, and with two formats selected before either file
\* is opened.
C19_Original ==
    StartupError =>
        /\ h_diffs = <<>> /\ out = <<>>
        /\ Contradictory(opts) => opened = <<>>
        /\ pc = "exited" => exit_code = <<EXIT_ERROR>>

\* C19 as amended: the same, except that the run prints the usage and
\* ends with the exit status 0 when a help option is processed first.
C19_StartupErrors ==
    StartupError =>
        /\ h_diffs = <<>> /\ out = <<>>
        /\ Contradictory(opts) => opened = <<>>
        /\ pc = "exited" =>
              exit_code = IF HelpComesFirst THEN <<0>> ELSE <<EXIT_ERROR>>

\* The first report was loaded, the second could not be opened.
C19_Witness ==
    /\ pc = "exited"
    /\ Unopenable
    /\ ~HelpComesFirst
    /\ Len(opened) = 2
    /\ Len(scan_a.hosts) = 1
    /\ h_diffs = <<>>
    /\ exit_code = <<EXIT_ERROR>>

----------------------------------------------------------------------------
(* Properties of the parser.                                               *)

\* C20: for any sequence of well-nested element events of a scan report,
\* including elements whose required attributes are missing or invalid,
\* the content handler never raises: no exception leaves startElement or
\* endElement, and the events are handled to the end of the document.
C20_Original ==
    /\ handler.raised = ""
    /\ events = <<>> => handler.element_stack = <<>>

----------------------------------------------------------------------------
(* Frame of ScanDiff.output.                                               *)

SameElements(s, t) ==
    /\ Len(s) = Len(t)
    /\ \A x \in Range(s) \cup Range(t) :
          Cardinality({k \in DOMAIN s : s[k] = x})
              = Cardinality({k \in DOMAIN t : t[k] = x})

ScanKept(scan, scan_after) ==
    /\ SameElements(scan.hosts, scan_after.hosts)
    /\ scan_after.pre_script_results = scan.pre_script_results
    /\ scan_after.post_script_results = scan.post_script_results

----------------------------------------------------------------------------
(* Properties of the service of a port.                                    *)

\* The two ports have the same spec, state and script results, and their
\* services differ in tunnel and in nothing else.
DifferOnlyInTunnel(port_a, port_b) ==
    /\ port_a.service.tunnel # port_b.service.tunnel
    /\ port_b = [port_a EXCEPT !.service.tunnel = port_b.service.tunnel]

\* C23: a PortDiff of two ports that differ only in the tunnel of their
\* service has cost 0 and, when verbose is not set, is not included in the
\* HostDiff and adds nothing to its cost: the cost of the HostDiff is what
\* it is when host_b has the port of host_a.
C23_Original ==
    \A n \in DOMAIN h_diffs :
        LET d == h_diffs[n]
        IN \A spec \in DOMAIN d.host_a.ports \cap DOMAIN d.host_b.ports :
              LET port_a == d.host_a.ports[spec]
                  port_b == d.host_b.ports[spec]
              IN DifferOnlyInTunnel(port_a, port_b) =>
                    /\ PortDiff(port_a, port_b).cost = 0
                    /\ ~verbose =>
                          /\ spec \notin DOMAIN d.port_diffs
                          /\ d.cost = HostDiff(d.host_a,
                                         [d.host_b EXCEPT !.ports[spec] = port_a]).cost

----------------------------------------------------------------------------
(* Properties of the port list of a HostDiff.                              *)

\* The port that HostDiff compares for a spec on one side.
ComparedPort(host, spec) ==
    IF spec \in DOMAIN host.ports THEN host.ports[spec]
    ELSE [spec |-> spec, state |-> None, service |-> Service,
          script_results |-> <<>>]

\* C24: the ports of a HostDiff have distinct specs, one PortDiff each and
\* no other PortDiff; each spec is a key of the ports of host_a or of
\* host_b; the ports are in ascending order of spec; the PortDiff of a spec
\* compares the port of each host under that spec, or, for a host that has
\* none, a port of that spec with state None, an empty service and no
\* script result.
C24_PortDiffsPerSpec ==
    \A n \in DOMAIN h_diffs :
        LET d == h_diffs[n]
        IN /\ \A k, l \in DOMAIN d.ports :
                 k < l => spec_lt(d.ports[k].spec, d.ports[l].spec)
           /\ DOMAIN d.port_diffs = {d.ports[k].spec : k \in DOMAIN d.ports}
           /\ DOMAIN d.port_diffs
                 \subseteq DOMAIN d.host_a.ports \cup DOMAIN d.host_b.ports
           /\ \A spec \in DOMAIN d.port_diffs :
                 /\ d.port_diffs[spec].port_a = ComparedPort(d.host_a, spec)
                 /\ d.port_diffs[spec].port_b = ComparedPort(d.host_b, spec)

\* A HostDiff with two ports, the first of which only host_b has and the
\* second of which only host_a has.
C24_Witness ==
    \E n \in DOMAIN h_diffs :
        LET d == h_diffs[n]
        IN /\ Len(d.ports) = 2
           /\ d.ports[1].spec \notin DOMAIN d.host_a.ports
           /\ d.ports[2].spec \notin DOMAIN d.host_b.ports
           /\ d.port_diffs[d.ports[1].spec].port_a.state = None

----------------------------------------------------------------------------
(* Verbose and the cost.                                                   *)

\* C26: the cost that ScanDiff.output returns does not depend on verbose;
\* stated on the case the claim names: the comparison of a scan with an
\* identical copy, all of whose hosts have an address or a host name,
\* returns 0 whether verbose is set or not, also when hosts or ports carry
\* script results.
C26_Original ==
    (/\ pc = "done"
     /\ IdenticalScans
     /\ \A h \in Range(scan_a.hosts) : ~Anonymous(h))
        => cost = 0

----------------------------------------------------------------------------
(* Properties of the scan that the parser builds.                          *)

Parsed == pc = "parse" /\ events = <<>> /\ handler.raised = ""

SortedByScriptId(l) == \A k, m \in DOMAIN l : k < m => l[k].id <= l[m].id

\* The lists of host script results and of port script results of the
\* scan.
HostAndPortScriptLists ==
    {handler.scan.hosts[k].script_results : k \in DOMAIN handler.scan.hosts}
    \cup UNION {{handler.scan.hosts[k].ports[spec].script_results :
                    spec \in DOMAIN handler.scan.hosts[k].ports} :
                k \in DOMAIN handler.scan.hosts}

\* C28: in a parsed scan every list that the comparison passes to
\* ScriptResultDiff.diff_lists (the pre-scan and the post-scan script
\* results of the scan, the script results of each host and of each of its
\* ports) is in ascending order of script id, whatever the order of the
\* script elements in the report.
C28_Original ==
    Parsed =>
        /\ SortedByScriptId(handler.scan.pre_script_results)
        /\ SortedByScriptId(handler.scan.post_script_results)
        /\ \A l \in HostAndPortScriptLists : SortedByScriptId(l)

----------------------------------------------------------------------------
(* Properties of the text report of a host diff.                           *)

\* The rows of the port table for the port spec among the lines.
PortRowsOf(lines, spec) ==
    SelectSeq(lines, LAMBDA l : /\ "columns" \in DOMAIN l.body
                                /\ l.body.columns[1] = spec)

\* C25: in the text of a host diff, for every included PortDiff whose
\* displayed columns differ, the rows of the port are a '-' row with the
\* columns of port_a unless host_a classifies the state of port_a as
\* extraports, followed by a '+' row with the columns of port_b unless
\* host_b classifies the state of port_b as extraports; a row marked ' '
\* is there only when the displayed columns are equal; ports that are not
\* included have no row.
C25_PortRows ==
    \A k \in DOMAIN out :
        (out[k].part = "host_diff" /\ output_format = "text") =>
            LET d == h_diffs[out[k].k]
                lines == out[k].lines
            IN /\ \A spec \in DOMAIN d.port_diffs :
                     LET pd == d.port_diffs[spec]
                         a_columns == port_columns(pd.port_a)
                         b_columns == port_columns(pd.port_b)
                         rows == PortRowsOf(lines, spec)
                         minus == IF is_extraports(d.host_a, pd.port_a.state)
                                     THEN <<>>
                                     ELSE <<table_row("-", a_columns)>>
                         plus == IF is_extraports(d.host_b, pd.port_b.state)
                                    THEN <<>>
                                    ELSE <<table_row("+", b_columns)>>
                     IN /\ a_columns # b_columns => rows = minus \o plus
                        /\ (\E r \in DOMAIN rows : rows[r].sign = " ")
                              => a_columns = b_columns
               /\ \A l \in DOMAIN lines :
                     "columns" \in DOMAIN lines[l].body
                         => lines[l].body.columns[1] \in DOMAIN d.port_diffs

\* The text of a host diff with two ports: the first has a '-' and a '+'
\* row, the second, whose state host_a lists in its extraports, only a '+'
\* row.
C25_Witness ==
    \E k \in DOMAIN out :
        /\ out[k].part = "host_diff"
        /\ output_format = "text"
        /\ LET d == h_diffs[out[k].k]
               first == PortRowsOf(out[k].lines, <<22, "tcp">>)
               second == PortRowsOf(out[k].lines, <<80, "tcp">>)
           IN /\ Len(d.ports) = 2
              /\ Len(first) = 2 /\ first[1].sign = "-" /\ first[2].sign = "+"
              /\ Len(second) = 1 /\ second[1].sign = "+"
              /\ <<80, "tcp">> \in DOMAIN d.host_a.ports
              /\ is_extraports(d.host_a, d.host_a.ports[<<80, "tcp">>].state)

----------------------------------------------------------------------------
(* The stream of the text report.                                          *)

\* C30: every line of the text report, the lines of the host script
\* results section included, is written to the stream f that the
\* ScanDiffText was given, and nothing is written to any other stream.
C30_Original ==
    output_format = "text" =>
        \A k \in DOMAIN out :
            /\ out[k].stream = f
            /\ (out[k].part = "host_diff" /\ out[k].script_lines # <<>>
                    => out[k].script_stream = f)

----------------------------------------------------------------------------
(* Reported differences and the cost.                                      *)

\* A line of the text report that starts with '-' or '+'.
Marked(lines) == \E n \in DOMAIN lines : lines[n].sign \in {"-", "+"}

\* An a or b element among the nodes or below them.
RECURSIVE HasAB(_)
HasAB(nodes) ==
    \E n \in DOMAIN nodes :
        nodes[n].tag \in {"a", "b"} \/ HasAB(nodes[n].children)

\* A difference is reported in the part number k of the output.
ReportsDifference(k) ==
    \/ Marked(out[k].lines)
    \/ out[k].part = "host_diff" /\ Marked(out[k].script_lines)
    \/ HasAB(out[k].xml)

\* C27: when the output reports a difference, a line that starts with '-'
\* or '+' or an a or b element, be it in the banner, in the pre-scan or
\* post-scan script results or in a host, the cost that output returns is
\* greater than zero.
C27_Original ==
    pc = "done" /\ (\E k \in DOMAIN out : ReportsDifference(k)) => cost > 0

----------------------------------------------------------------------------
(* Hosts of one scan only in the XML report.                               *)

\* The hostdiff element of a host reported wholesale under the wrapper tag.
Wholesale(tag, host) ==
    <<Node("hostdiff", <<>>, <<Node(tag, <<>>, Host_to_dom_fragment(host))>>)>>

\* C21: for every host that is in one scan only, the XML report has the
\* whole host element under exactly one wrapper, a for a host of the first
\* scan and b for a host of the second, and no comparison of its parts
\* with the absent host.
C21_Original ==
    output_format = "xml" =>
        \A n \in DOMAIN h_diffs :
            LET d == h_diffs[n]
            IN /\ IsReal(d.host_a) /\ ~IsReal(d.host_b) =>
                      \E k \in DOMAIN out :
                          /\ out[k].part = "host_diff"
                          /\ out[k].k = n
                          /\ out[k].xml = Wholesale("a", d.host_a)
               /\ IsReal(d.host_b) /\ ~IsReal(d.host_a) =>
                      \E k \in DOMAIN out :
                          /\ out[k].part = "host_diff"
                          /\ out[k].k = n
                          /\ out[k].xml = Wholesale("b", d.host_b)


====
